---- MODULE Spec2Model ----
(***************************************************************************)
(* Dispensing kiosk firmware: the target-count coin counter                *)
(* (src/main/CoinCounter.cpp), the hopper payout                           *)
(* (src/main-final/HopperPayout.cpp) and the paper feed sequencer          *)
(* (src/main/StepperMotor.cpp, class PaperDispenser).                      *)
(*                                                                         *)
(* Two further sketches have specifications of their own: the coin slot    *)
(* (src/main/CoinSlotISR.cpp, src/coin_slot/CoinSlotISR.cpp and            *)
(* src/main-final/InsertMeter.cpp; SpecSlot) and the blocking paper        *)
(* dispenser of src/stepper-motor/StepperMotor.cpp (SpecStepper).          *)
(*                                                                         *)
(* The components belong to different sketches of the repository and       *)
(* share no state, so a behaviour runs one of them; `sketch` is chosen in  *)
(* Init and says which.  Time is the value of millis(), in milliseconds;   *)
(* it is advanced by the environment action Advance and by the blocking    *)
(* delay() calls inside the handlers.  One handler call reads millis()     *)
(* once: the microseconds spent inside a non-blocking handler are not      *)
(* modelled.  `serial` holds the lines the last handler wrote to Serial.   *)
(*                                                                         *)
(* The code reads a time stamp only in a difference millis() - stamp that  *)
(* it compares with a constant.  To keep the state space finite the time   *)
(* frame slides: whenever time passes, `now` and every stamp are rebased   *)
(* so that `now` never exceeds the window of the sketch (its largest       *)
(* threshold), and a stamp older than the largest threshold it is compared *)
(* with is kept at exactly that age.  Every comparison the code makes has  *)
(* the same outcome before and after rebasing.  The 32-bit wrap of         *)
(* millis() (after 49 days) is not modelled.                               *)
(*                                                                         *)
(* Init is the state after construction and begin(), the sketch having     *)
(* idled for its window: until the first command or coin edge a loop pass  *)
(* changes no member, so only millis() differs from the state right after  *)
(* construction.                                                           *)
(***************************************************************************)
EXTENDS Integers, Sequences, FiniteSets, TLC

VARIABLES
    sketch,     \* which sketch runs: "counter", "hopper", "paper", a coin slot, "stepper", "relay"
    now,        \* millis()
    serial,     \* the messages written to Serial by the last handler call
    btnArmed,   \* ezButton: the debounce time has passed since the last press edge
    cc,         \* CoinCounter members
    relays,     \* RelayHopper::m_bRelayStates (TRUE = OFF)
    hp,         \* HopperPayout members and its actuator pin
    pd,         \* PaperDispenser members, the DC motor and the limit switch
    sl,         \* coin slot: the pulse burst, the total, the interrupt
    bp,         \* PaperDispenser of the stepper-motor sketch inside dispense()
    rh,         \* RelayHopper: the levels of its pins, stores outside m_bRelayStates
    op,         \* the last handler call and what it observed (history)
    job         \* per-job history: what happened since the last accepted start

vars == <<sketch, now, serial, btnArmed, cc, relays, hp, pd, sl, bp, rh, op, job>>

----------------------------------------------------------------------------
(* Bounds of the model *)

MaxAmount == 2          \* largest dispense amount a command carries
MaxCount == 3           \* the coin counter stops counting here

(* Program constants *)

k_ulTimeoutDuration == 3000
k_ulStatusInterval == 1000

\* The time steps the environment takes between two handler calls.
CounterDelays == {1000, 3000}

Amounts == (-1) .. MaxAmount

----------------------------------------------------------------------------
(* Serial messages.  Every message is a record of one shape; the fields a  *)
(* message does not carry are "-" or 0.                                    *)

Msg(source, type, what, ok, x, y, status) ==
    [source |-> source, type |-> type, what |-> what, ok |-> ok,
     x |-> x, y |-> y, status |-> status]

\* data["value"] is written only when value > 0
AckValue(value) == IF value > 0 THEN value ELSE 0

CountMsgs(s, type, what) ==
    Cardinality({i \in 1 .. Len(s) : s[i].type = type /\ s[i].what = what})

----------------------------------------------------------------------------
(* RelayHopper *)

Relay_sendAckJson(action, relay, state) ==
    Msg("Relay", "ack", action, "true", relay, 0, state)

\* setRelay: the new relay states and the lines it writes
RelayHopper_setRelay(states, relayNum, state) ==
    IF relayNum >= 1 /\ relayNum <= 3
    THEN [states |-> [states EXCEPT ![relayNum] = state],
          out |-> <<Relay_sendAckJson("set", relayNum, IF state THEN "OFF" ELSE "ON")>>]
    ELSE [states |-> states, out |-> <<>>]

----------------------------------------------------------------------------
(* CoinCounter *)

CounterName == "Counter"

CC_Init ==
    [m_nCurrentCount |-> 0, m_nTargetCount |-> 0, m_bNewCoinDetected |-> FALSE,
     m_bDispensing |-> FALSE, m_bTargetReached |-> FALSE, m_bTimedOut |-> FALSE,
     m_ulLastCoinTime |-> 0, m_ulLastStatusTime |-> 0,
     m_bHasRelay |-> TRUE, m_nRelayNumber |-> 1]

\* A step of a counter: its members, the relay bank, the lines written.
CCStep(c, r, out) == [c |-> c, r |-> r, out |-> out]

CC_sendStatusJson(c) ==
    IF c.m_bDispensing /\ c.m_nTargetCount > 0
    THEN Msg("CoinCounter", "status", "dispensing", "-", c.m_nCurrentCount, c.m_nTargetCount, "dispensing")
    ELSE Msg("CoinCounter", "status", "idle", "-", c.m_nCurrentCount, 0, "idle")

CC_sendEventJson(c, eventType, event) ==
    Msg("CoinCounter", eventType, event, "-", c.m_nCurrentCount,
        IF c.m_nTargetCount > 0 THEN c.m_nTargetCount ELSE 0, "-")

CC_sendTimeoutJson(c) ==
    Msg("CoinCounter", "error", "timeout", "-", c.m_nCurrentCount, c.m_nTargetCount, "-")

CC_sendAckJson(action, ok, value, status) ==
    Msg("CoinCounter", "ack", action, IF ok THEN "true" ELSE "false", AckValue(value), 0, status)

\* the relay of this counter switched (state TRUE = OFF), when it has one
CC_setRelay(c, r, state) ==
    IF c.m_bHasRelay
    THEN RelayHopper_setRelay(r, c.m_nRelayNumber, state)
    ELSE [states |-> r, out |-> <<>>]

\* mutant: the watchdog never fires
CC_timeoutElapsed_never(t, last) == FALSE

\* mutant: the watchdog fires only after more than the timeout
CC_timeoutElapsed_gt(t, last) == t - last > k_ulTimeoutDuration

CC_timeoutElapsed(t, last) == t - last >= k_ulTimeoutDuration

\* mutant: the timeout leaves the job running
CC_checkTimeout_keep(c, r, t) ==
    IF c.m_bDispensing /\ ~c.m_bTargetReached /\ CC_timeoutElapsed(t, c.m_ulLastCoinTime)
    THEN LET c1 == [c EXCEPT !.m_bTimedOut = TRUE]
             rl == CC_setRelay(c1, r, TRUE)
         IN  CCStep(c1, rl.states, rl.out \o <<CC_sendTimeoutJson(c1)>>)
    ELSE CCStep(c, r, <<>>)

CC_checkTimeout(c, r, t) ==
    IF c.m_bDispensing /\ ~c.m_bTargetReached /\ CC_timeoutElapsed(t, c.m_ulLastCoinTime)
    THEN LET c1 == [c EXCEPT !.m_bTimedOut = TRUE, !.m_bDispensing = FALSE]
             rl == CC_setRelay(c1, r, TRUE)
         IN  CCStep(c1, rl.states, rl.out \o <<CC_sendTimeoutJson(c1)>>)
    ELSE CCStep(c, r, <<>>)

\* mutant: the target test misses count = target
CC_targetHit_gt(c) ==
    c.m_bDispensing /\ c.m_nTargetCount > 0 /\ c.m_nCurrentCount > c.m_nTargetCount

CC_targetHit(c) ==
    c.m_bDispensing /\ c.m_nTargetCount > 0 /\ c.m_nCurrentCount >= c.m_nTargetCount

\* mutant: the coin edge does not refresh the time of the last coin
CC_onCoin_stale(c, r, t) ==
    LET c1 == [c EXCEPT !.m_nCurrentCount = @ + 1, !.m_bNewCoinDetected = TRUE,
                        !.m_bTimedOut = FALSE]
    IN  IF CC_targetHit(c1)
        THEN LET c2 == [c1 EXCEPT !.m_bTargetReached = TRUE, !.m_bDispensing = FALSE]
                 rl == CC_setRelay(c2, r, TRUE)
             IN  CCStep(c2, rl.states, rl.out \o <<CC_sendEventJson(c2, "event", "target_reached")>>)
        ELSE CCStep(c1, r, <<>>)

\* update(), the coin edge
CC_onCoin(c, r, t) ==
    LET c1 == [c EXCEPT !.m_nCurrentCount = @ + 1, !.m_bNewCoinDetected = TRUE,
                        !.m_ulLastCoinTime = t, !.m_bTimedOut = FALSE]
    IN  IF CC_targetHit(c1)
        THEN LET c2 == [c1 EXCEPT !.m_bTargetReached = TRUE, !.m_bDispensing = FALSE]
                 rl == CC_setRelay(c2, r, TRUE)
             IN  CCStep(c2, rl.states, rl.out \o <<CC_sendEventJson(c2, "event", "target_reached")>>)
        ELSE CCStep(c1, r, <<>>)

\* update(), the periodic status
CC_periodicStatus(c, t) ==
    IF c.m_bDispensing /\ t - c.m_ulLastStatusTime >= k_ulStatusInterval
    THEN [c |-> [c EXCEPT !.m_ulLastStatusTime = t], out |-> <<CC_sendStatusJson(c)>>]
    ELSE [c |-> c, out |-> <<>>]

\* update(): the coin edge, the periodic status, the timeout check, in this order
CC_update(c, r, t, pressed) ==
    LET s1 == IF pressed THEN CC_onCoin(c, r, t) ELSE CCStep(c, r, <<>>)
        s2 == CC_periodicStatus(s1.c, t)
        s3 == IF s2.c.m_bDispensing THEN CC_checkTimeout(s2.c, s1.r, t) ELSE CCStep(s2.c, s1.r, <<>>)
    IN  CCStep(s3.c, s3.r, s1.out \o s2.out \o s3.out)

\* mutant: the flags of the finished job survive
CC_reset_skip(c) ==
    [c EXCEPT !.m_nCurrentCount = 0, !.m_bNewCoinDetected = FALSE, !.m_bDispensing = FALSE,
              !.m_nTargetCount = 0, !.m_ulLastCoinTime = 0, !.m_ulLastStatusTime = 0]

CC_reset(c) ==
    [c EXCEPT !.m_nCurrentCount = 0, !.m_bNewCoinDetected = FALSE,
              !.m_bTargetReached = FALSE, !.m_bTimedOut = FALSE, !.m_bDispensing = FALSE,
              !.m_nTargetCount = 0, !.m_ulLastCoinTime = 0, !.m_ulLastStatusTime = 0]

\* mutant: an amount of 0 is let through
CC_invalidAmount_lt(numberOfCoins) == numberOfCoins < 0

CC_invalidAmount(numberOfCoins) == numberOfCoins <= 0

CC_dispense(c, r, t, numberOfCoins) ==
    IF CC_invalidAmount(numberOfCoins)
    THEN CCStep(c, r, <<>>)
    ELSE LET c1 == [c EXCEPT !.m_nTargetCount = numberOfCoins, !.m_nCurrentCount = 0,
                             !.m_bDispensing = TRUE, !.m_bTargetReached = FALSE,
                             !.m_bTimedOut = FALSE, !.m_ulLastCoinTime = t,
                             !.m_ulLastStatusTime = t]
             rl == CC_setRelay(c1, r, FALSE)
         IN  CCStep(c1, rl.states, rl.out \o <<CC_sendStatusJson(c1)>>)

CC_stopDispensing(c, r) ==
    LET c1 == [c EXCEPT !.m_bDispensing = FALSE]
        rl == CC_setRelay(c1, r, TRUE)
    IN  CCStep(c1, rl.states, rl.out)

----------------------------------------------------------------------------
(* Command lines.  A line is either a JSON document (json = TRUE, with the *)
(* keys it carries) or a plain-text token prefix_verb[_digits].            *)

JsonLine(v, target, cmd, hasName, name, hasValue, value) ==
    [json |-> TRUE, v |-> v, target |-> target, cmd |-> cmd, hasName |-> hasName,
     name |-> name, hasValue |-> hasValue, value |-> value,
     prefix |-> "", verb |-> "", digits |-> <<>>]

TextLine(prefix, verb, digits) ==
    [json |-> FALSE, v |-> 0, target |-> "", cmd |-> "", hasName |-> FALSE,
     name |-> "", hasValue |-> FALSE, value |-> 0,
     prefix |-> prefix, verb |-> verb, digits |-> digits]

\* the instance name written in a line ("" when it carries none)
Addressee(line) ==
    IF line.json THEN (IF line.hasName THEN line.name ELSE "") ELSE line.prefix

\* String::toLowerCase on the names the model uses
ToLower(str) ==
    CASE str = "Counter" -> "counter"
      [] str = "COUNTER" -> "counter"
      [] str = "Other" -> "other"
      [] OTHER -> str

Digit(ch) ==
    CASE ch = "0" -> 0 [] ch = "1" -> 1 [] ch = "2" -> 2 [] ch = "3" -> 3
      [] OTHER -> -1

RECURSIVE DigitsValue(_, _)
\* the leading digits of txt, read left to right onto acc
DigitsValue(txt, acc) ==
    IF txt = <<>> \/ Digit(Head(txt)) < 0
    THEN acc
    ELSE DigitsValue(Tail(txt), 10 * acc + Digit(Head(txt)))

\* String::toInt (atol): optional sign, then digits; 0 when there are none
ToInt(txt) ==
    IF txt # <<>> /\ Head(txt) = "-"
    THEN 0 - DigitsValue(Tail(txt), 0)
    ELSE DigitsValue(txt, 0)

AmountTexts == {<<"2">>, <<"1">>, <<"0">>, <<"-", "1">>, <<"x">>, <<>>}

CounterLines ==
    {JsonLine(1, "CoinCounter", c, TRUE, CounterName, FALSE, 0) :
        c \in {"reset", "get", "dispense", "stop", "bogus"}}
    \cup {JsonLine(1, "CoinCounter", "dispense", TRUE, CounterName, TRUE, n) : n \in Amounts}
    \cup {JsonLine(1, "CoinCounter", "dispense", TRUE, "Other", TRUE, 1),
          JsonLine(1, "CoinCounter", "reset", TRUE, "COUNTER", FALSE, 0),
          JsonLine(1, "CoinCounter", "reset", FALSE, "", FALSE, 0),
          JsonLine(2, "CoinCounter", "reset", TRUE, CounterName, FALSE, 0),
          JsonLine(1, "Relay", "reset", TRUE, CounterName, FALSE, 0)}
    \cup {TextLine(p, vb, <<>>) : p \in {"counter", "COUNTER", "other"},
                                  vb \in {"reset", "get", "stop", "bogus"}}
    \cup {TextLine("counter", "dispense", d) : d \in AmountTexts}

\* what a handler did with a line: the command it ran and the amount it read
Route(form, cmd, n) == [form |-> form, cmd |-> cmd, n |-> n]

CC_processLegacyCommand(c, r, t, line) ==
    LET prefix == ToLower(CounterName)
        mine == ~line.json /\ ToLower(line.prefix) = prefix
    IN  IF mine /\ line.verb = "reset" /\ line.digits = <<>>
        THEN CCStep(CC_reset(c), r, <<CC_sendAckJson("reset", TRUE, 0, "-")>>)
        ELSE IF mine /\ line.verb = "get" /\ line.digits = <<>>
        THEN CCStep(c, r, <<CC_sendStatusJson(c)>>)
        ELSE IF mine /\ line.verb = "dispense"
        THEN LET amount == ToInt(line.digits)
                 s == CC_dispense(c, r, t, amount)
             IN  CCStep(s.c, s.r, s.out \o <<CC_sendAckJson("dispense", TRUE, amount, "started")>>)
        ELSE IF mine /\ line.verb = "stop" /\ line.digits = <<>>
        THEN LET s == CC_stopDispensing(c, r)
             IN  CCStep(s.c, s.r, s.out \o <<CC_sendAckJson("stop", TRUE, 0, "-")>>)
        ELSE CCStep(c, r, <<>>)

CC_nameMatches_any(name) == TRUE

\* strcmp(name, m_strCounterName.c_str()) == 0
CC_nameMatches(name) == name = CounterName

CC_processJsonCommand(c, r, t, line) ==
    IF ~CC_nameMatches(line.name)
    THEN CCStep(c, r, <<>>)
    ELSE IF line.cmd = "reset"
    THEN CCStep(CC_reset(c), r, <<CC_sendAckJson("reset", TRUE, 0, "-")>>)
    ELSE IF line.cmd = "get"
    THEN CCStep(c, r, <<CC_sendStatusJson(c)>>)
    ELSE IF line.cmd = "dispense"
    THEN IF line.hasValue
         THEN LET s == CC_dispense(c, r, t, line.value)
              IN  CCStep(s.c, s.r, s.out \o <<CC_sendAckJson("dispense", TRUE, line.value, "started")>>)
         ELSE CCStep(c, r, <<CC_sendAckJson("dispense", FALSE, 0, "missing_value")>>)
    ELSE IF line.cmd = "stop"
    THEN LET s == CC_stopDispensing(c, r)
         IN  CCStep(s.c, s.r, s.out \o <<CC_sendAckJson("stop", TRUE, 0, "-")>>)
    ELSE CCStep(c, r, <<>>)

CC_isJsonForMe(line) ==
    line.json /\ line.hasName /\ line.v = 1 /\ line.target = "CoinCounter"

CC_handleSerial(c, r, t, line) ==
    IF CC_isJsonForMe(line)
    THEN CC_processJsonCommand(c, r, t, line)
    ELSE CC_processLegacyCommand(c, r, t, line)

\* the command of this counter a line carries ("none" when the counter ignores it)
CC_route(line) ==
    IF CC_isJsonForMe(line)
    THEN IF line.name = CounterName /\ line.cmd \in {"reset", "get", "dispense", "stop"}
         THEN Route("json", IF line.cmd = "dispense" /\ ~line.hasValue THEN "dispense_novalue" ELSE line.cmd,
                    IF line.cmd = "dispense" THEN line.value ELSE 0)
         ELSE Route("json", "none", 0)
    ELSE IF ~line.json /\ ToLower(line.prefix) = ToLower(CounterName)
            /\ (line.verb = "dispense" \/ (line.verb \in {"reset", "get", "stop"} /\ line.digits = <<>>))
         THEN Route("legacy", line.verb, IF line.verb = "dispense" THEN ToInt(line.digits) ELSE 0)
         ELSE Route("legacy", "none", 0)

----------------------------------------------------------------------------
(* HopperPayout.  `pin` is the actuator output (TRUE = energized).          *)

HOPPER_PULSE_MS == 1000
HOPPER_COOL_MS == 500
HOPPER_MAX_GAP_MS == 3000
HopperSettleMs == 150           \* an edge counts only later than this after the pulse began
HopperRecentCoinMs == 50        \* no new pulse sooner than this after a coin
ButtonClearMs == 25             \* for (i < 5) { btn_->loop(); delay(5); }
StartDelayMs == 100             \* delay(100) at the end of start()

\* uint16_t
U16(n) == n % 65536

HP_Init(lastButtonState) ==
    [target_ |-> 0, count_ |-> 0, busy_ |-> FALSE, lastCoin_ |-> 0,
     pulsing_ |-> FALSE, pulseStart_ |-> 0, coolStart_ |-> 0,
     lastButtonState_ |-> lastButtonState, pin |-> FALSE]

\* A step of the hopper: its members, the lines written, millis() on return,
\* the value returned.
HPStep(h, out, t, ret) == [h |-> h, out |-> out, t |-> t, ret |-> ret]

HP_text(what, h) == Msg("Hopper", "text", what, "-", h.count_, h.target_, "-")

HP_on(h) == [h EXCEPT !.pin = TRUE]
\* mutant: off_() leaves the pin as it is
HP_off_never(h) == h

HP_off(h) == [h EXCEPT !.pin = FALSE]

\* mutant: start() does not look at busy_
HP_startRefused_never(h) == FALSE

HP_startRefused(h) == h.busy_

HP_start(h, t, n) ==
    IF HP_startRefused(h)
    THEN HPStep(h, <<>>, t, FALSE)
    ELSE IF n <= 0
    THEN HPStep(h, <<HP_text("invalid", h)>>, t, FALSE)
    ELSE LET t1 == t + ButtonClearMs
             h1 == [HP_on(h) EXCEPT !.target_ = n, !.count_ = 0, !.busy_ = TRUE,
                                    !.lastCoin_ = t1, !.pulsing_ = TRUE,
                                    !.pulseStart_ = t1]
         IN  HPStep(h1, <<HP_text("started", h1)>>, t1 + StartDelayMs, TRUE)

HP_stop(h) ==
    LET h1 == [HP_off(h) EXCEPT !.busy_ = FALSE, !.pulsing_ = FALSE]
    IN  [h |-> h1, out |-> <<HP_text("stopped", h1)>>]

HP_reset(h, t) ==
    LET h1 == HP_off([h EXCEPT !.count_ = 0, !.target_ = 0, !.busy_ = FALSE,
                               !.pulsing_ = FALSE, !.lastCoin_ = 0])
    IN  HPStep(h1, <<HP_text("reset", h1)>>, t + ButtonClearMs, TRUE)

\* mutant: the next push does not wait for a recent coin
HP_duty_early(h, t) ==
    IF h.pulsing_
    THEN IF t - h.pulseStart_ >= HOPPER_PULSE_MS
         THEN [HP_off(h) EXCEPT !.pulsing_ = FALSE, !.coolStart_ = t]
         ELSE h
    ELSE IF t - h.coolStart_ >= HOPPER_COOL_MS
         THEN [HP_on(h) EXCEPT !.pulsing_ = TRUE, !.pulseStart_ = t]
         ELSE h

\* the push ON window and the cooling gap
HP_duty(h, t) ==
    IF h.pulsing_
    THEN IF t - h.pulseStart_ >= HOPPER_PULSE_MS
         THEN [HP_off(h) EXCEPT !.pulsing_ = FALSE, !.coolStart_ = t]
         ELSE h
    ELSE IF t - h.coolStart_ >= HOPPER_COOL_MS /\ t - h.lastCoin_ >= HopperRecentCoinMs
         THEN [HP_on(h) EXCEPT !.pulsing_ = TRUE, !.pulseStart_ = t]
         ELSE h

\* mutant: the edge counts whenever it is seen
HP_coinAccepted_off(h, t, currentState) ==
    currentState /\ ~h.lastButtonState_

\* the edge counts as a coin
HP_coinAccepted(h, t, currentState) ==
    currentState /\ ~h.lastButtonState_ /\ t - h.pulseStart_ > HopperSettleMs

HP_onCoin(h, t) ==
    LET h1 == [h EXCEPT !.count_ = U16(@ + 1), !.lastCoin_ = t]
        outLine == <<HP_text("out", h1)>>
    IN  IF h1.busy_ /\ h1.target_ > 0 /\ h1.count_ >= h1.target_
        THEN LET st == HP_stop(h1)
             IN  [h |-> st.h, out |-> outLine \o st.out
                        \o <<HP_text("done", st.h), HP_text("target_reached", st.h)>>]
        ELSE [h |-> h1, out |-> outLine]

HP_gapElapsed(t, last) == t - last >= HOPPER_MAX_GAP_MS

HP_watchdog(h, t) ==
    IF h.busy_ /\ HP_gapElapsed(t, h.lastCoin_)
    THEN LET st == HP_stop(h)
         IN  [h |-> st.h, out |-> st.out \o <<HP_text("done", st.h), HP_text("timeout", st.h)>>]
    ELSE [h |-> h, out |-> <<>>]

HP_loop(h, t, currentState) ==
    IF ~h.busy_
    THEN HPStep(h, <<>>, t, TRUE)
    ELSE LET h1 == HP_duty(h, t)
             s2 == IF HP_coinAccepted(h1, t, currentState)
                   THEN HP_onCoin(h1, t)
                   ELSE [h |-> h1, out |-> <<>>]
             h3 == [s2.h EXCEPT !.lastButtonState_ = currentState]
             s4 == HP_watchdog(h3, t)
         IN  HPStep(s4.h, s2.out \o s4.out, t, TRUE)

----------------------------------------------------------------------------
(* PaperDispenser.  `motor` is the DC feed motor ("stop", "forward",       *)
(* "reverse").  The limit switch is read through isLimitSwitchPressed();   *)
(* what it reads is an input of the call.                                  *)

k_ulRampDownTime == 8000
DefaultStepperSteps == 1000     \* constructor default
StepMicros == 3000              \* one step: two pulse halves of m_ulStepDelay plus delayMicros
SheetDelayMs == 100             \* delay(100) after a sheet

PaperName == "PaperDispenser1"

PD_Init ==
    [m_nStepperSteps |-> DefaultStepperSteps, m_nCurrentPaper |-> 0, m_nTotalPapers |-> 0,
     m_bDispensing |-> FALSE, m_bRampingDown |-> FALSE, m_bOperationComplete |-> FALSE,
     m_bStopped |-> FALSE, m_eState |-> "IDLE", m_ulLastStatusTime |-> 0,
     m_ulRampDownStartTime |-> 0, motor |-> "stop"]

\* A step of the dispenser: its members, the lines written, millis() on return.
PDStep(p, out, t) == [p |-> p, out |-> out, t |-> t]

PD_statusText(p) ==
    CASE p.m_eState = "IDLE" -> "idle"
      [] p.m_eState = "HOMING" -> "homing"
      [] p.m_eState = "DISPENSING" -> "in_progress"
      [] p.m_eState = "RAMPING_DOWN" -> "ramping_down"
      [] p.m_eState = "COMPLETE" -> "complete"
      [] p.m_eState = "ERROR" -> "error"
      [] OTHER -> "unknown"

PD_sendStatusJson(p) ==
    IF p.m_eState # "IDLE"
    THEN Msg("PaperDispenser", "status", "dispense", "-", p.m_nCurrentPaper, p.m_nTotalPapers, PD_statusText(p))
    ELSE Msg("PaperDispenser", "status", "-", "-", 0, 0, PD_statusText(p))

PD_sendEventJson(p, event) ==
    Msg("PaperDispenser", "event", event, "-",
        IF p.m_nTotalPapers > 0 THEN p.m_nTotalPapers ELSE 0, 0, "-")

PD_sendErrorJson(p, errorType) ==
    IF p.m_bDispensing
    THEN Msg("PaperDispenser", "error", errorType, "-", p.m_nCurrentPaper, p.m_nTotalPapers, "-")
    ELSE Msg("PaperDispenser", "error", errorType, "-", 0, 0, "-")

PD_sendAckJson(action, ok, value, status) ==
    Msg("PaperDispenser", "ack", action, IF ok THEN "true" ELSE "false", AckValue(value), 0, status)

\* StepperMotor::rotate(steps, CW) followed by delay(100): the milliseconds it blocks
PD_feedMs(steps) == (steps * StepMicros) \div 1000 + SheetDelayMs

\* mutant: one sheet too many
PD_feedDone_gt(p) == p.m_nCurrentPaper > p.m_nTotalPapers \/ p.m_bStopped

PD_feedDone(p) == p.m_nCurrentPaper >= p.m_nTotalPapers \/ p.m_bStopped

\* mutant: the ramp down ends only after more than its time
PD_rampDone_gt(p, t) == t - p.m_ulRampDownStartTime > k_ulRampDownTime

PD_rampDone(p, t) == t - p.m_ulRampDownStartTime >= k_ulRampDownTime

PD_updateStateMachine(p, t, limit) ==
    CASE p.m_eState = "HOMING" ->
            IF limit
            THEN PDStep([p EXCEPT !.motor = "stop",
                                  !.m_eState = IF p.m_bDispensing THEN "DISPENSING" ELSE "IDLE"],
                        <<>>, t)
            ELSE PDStep(p, <<>>, t)
      [] p.m_eState = "DISPENSING" ->
            IF PD_feedDone(p)
            THEN PDStep([p EXCEPT !.m_eState = "RAMPING_DOWN", !.m_bRampingDown = TRUE,
                                  !.m_ulRampDownStartTime = t, !.motor = "reverse"],
                        <<>>, t)
            ELSE IF ~limit
            THEN PDStep([p EXCEPT !.m_eState = "HOMING", !.motor = "forward"], <<>>, t)
            ELSE LET p1 == [p EXCEPT !.m_nCurrentPaper = @ + 1]
                 IN  PDStep(p1, <<PD_sendStatusJson(p1)>>, t + PD_feedMs(p.m_nStepperSteps))
      [] p.m_eState = "RAMPING_DOWN" ->
            IF PD_rampDone(p, t)
            THEN LET p1 == [p EXCEPT !.motor = "stop", !.m_bRampingDown = FALSE,
                                     !.m_eState = "COMPLETE", !.m_bOperationComplete = TRUE]
                 IN  PDStep(p1, <<PD_sendEventJson(p1, "dispense_complete")>>, t)
            ELSE PDStep(p, <<>>, t)
      [] p.m_eState = "COMPLETE" ->
            PDStep([p EXCEPT !.m_bDispensing = FALSE, !.m_nCurrentPaper = 0,
                             !.m_nTotalPapers = 0, !.m_eState = "IDLE"],
                   <<>>, t)
      [] OTHER -> PDStep(p, <<>>, t)

\* mutant: the state machine does not look at the limit switch
PD_update_blind(p, t, limit) ==
    LET s == PD_updateStateMachine(p, t, TRUE)
    IN  IF s.p.m_eState # "IDLE" /\ s.p.m_eState # "COMPLETE"
           /\ s.t - s.p.m_ulLastStatusTime >= k_ulStatusInterval
        THEN PDStep([s.p EXCEPT !.m_ulLastStatusTime = s.t],
                    s.out \o <<PD_sendStatusJson(s.p)>>, s.t)
        ELSE s

PD_update(p, t, limit) ==
    LET s == PD_updateStateMachine(p, t, limit)
    IN  IF s.p.m_eState # "IDLE" /\ s.p.m_eState # "COMPLETE"
           /\ s.t - s.p.m_ulLastStatusTime >= k_ulStatusInterval
        THEN PDStep([s.p EXCEPT !.m_ulLastStatusTime = s.t],
                    s.out \o <<PD_sendStatusJson(s.p)>>, s.t)
        ELSE s

\* mutant: a dispense() keeps the sheets fed so far
PD_dispense_stale(p, t, numOfPapers) ==
    IF numOfPapers <= 0
    THEN [p |-> p, out |-> <<PD_sendErrorJson(p, "invalid_parameter")>>]
    ELSE LET p1 == [p EXCEPT !.m_nTotalPapers = numOfPapers,
                             !.m_bDispensing = TRUE, !.m_bRampingDown = FALSE,
                             !.m_bOperationComplete = FALSE, !.m_bStopped = FALSE,
                             !.m_eState = "HOMING", !.motor = "forward",
                             !.m_ulLastStatusTime = t]
         IN  [p |-> p1, out |-> <<PD_sendStatusJson(p1)>>]

PD_dispense(p, t, numOfPapers) ==
    IF numOfPapers <= 0
    THEN [p |-> p, out |-> <<PD_sendErrorJson(p, "invalid_parameter")>>]
    ELSE LET p1 == [p EXCEPT !.m_nCurrentPaper = 0, !.m_nTotalPapers = numOfPapers,
                             !.m_bDispensing = TRUE, !.m_bRampingDown = FALSE,
                             !.m_bOperationComplete = FALSE, !.m_bStopped = FALSE,
                             !.m_eState = "HOMING", !.motor = "forward",
                             !.m_ulLastStatusTime = t]
         IN  [p |-> p1, out |-> <<PD_sendStatusJson(p1)>>]

PD_stop(p) ==
    IF p.m_bDispensing THEN [p EXCEPT !.m_bStopped = TRUE] ELSE p

PD_setStepperSteps(p, steps) ==
    IF steps > 0 THEN [p EXCEPT !.m_nStepperSteps = steps] ELSE p

PD_processJsonCommand(p, t, line) ==
    IF ~line.hasName
    THEN [p |-> p, out |-> <<PD_sendErrorJson(p, "missing_parameter")>>]
    ELSE IF line.name # PaperName
    THEN [p |-> p, out |-> <<>>]
    ELSE IF line.cmd = "dispense"
    THEN IF line.hasValue
         THEN LET s == PD_dispense(p, t, line.value)
              IN  [p |-> s.p, out |-> s.out \o <<PD_sendAckJson("dispense", TRUE, line.value, "started")>>]
         ELSE [p |-> p, out |-> <<PD_sendErrorJson(p, "missing_parameter")>>]
    ELSE IF line.cmd = "stop"
    THEN [p |-> PD_stop(p), out |-> <<PD_sendAckJson("stop", TRUE, 0, "-")>>]
    ELSE IF line.cmd = "setStepperSteps"
    THEN IF line.hasValue
         THEN [p |-> PD_setStepperSteps(p, line.value),
               out |-> <<PD_sendAckJson("setStepperSteps", TRUE, line.value, "-")>>]
         ELSE [p |-> p, out |-> <<PD_sendErrorJson(p, "missing_parameter")>>]
    ELSE [p |-> p, out |-> <<PD_sendErrorJson(p, "unknown_command")>>]

PD_isJsonForMe(line) ==
    line.json /\ line.v = 1 /\ line.target = "PaperDispenser"

PD_handleSerial(p, t, line) ==
    IF PD_isJsonForMe(line)
    THEN PD_processJsonCommand(p, t, line)
    ELSE [p |-> p, out |-> <<>>]

PD_route(line) ==
    IF PD_isJsonForMe(line) /\ line.hasName /\ line.name = PaperName
    THEN IF line.cmd \in {"dispense", "setStepperSteps"}
         THEN Route("json", IF line.hasValue THEN line.cmd ELSE "novalue", line.value)
         ELSE IF line.cmd = "stop" THEN Route("json", "stop", 0)
         ELSE Route("json", "unknown", 0)
    ELSE Route("json", "none", 0)

\* the step counts a setStepperSteps command carries
StepValues == {-1, 0, DefaultStepperSteps}

PaperLines ==
    {JsonLine(1, "PaperDispenser", c, TRUE, PaperName, FALSE, 0) :
        c \in {"dispense", "stop", "setStepperSteps", "bogus"}}
    \cup {JsonLine(1, "PaperDispenser", "dispense", TRUE, PaperName, TRUE, n) : n \in Amounts}
    \cup {JsonLine(1, "PaperDispenser", "setStepperSteps", TRUE, PaperName, TRUE, n) : n \in StepValues}
    \cup {JsonLine(1, "PaperDispenser", "dispense", TRUE, "Other", TRUE, 1),
          JsonLine(1, "PaperDispenser", "stop", FALSE, "", FALSE, 0),
          JsonLine(2, "PaperDispenser", "stop", TRUE, PaperName, FALSE, 0),
          JsonLine(1, "CoinCounter", "stop", TRUE, PaperName, FALSE, 0),
          TextLine("paperdispenser1", "stop", <<>>)}

----------------------------------------------------------------------------
(* Coin slot: CoinSlotISR of the main sketch (CS_), CoinSlotISR of the     *)
(* coin_slot sketch (OS_) and InsertMeter (IM_).  The three share the      *)
(* members of the pulse burst; m_bIsAttached exists in the main sketch     *)
(* only, the burst flag not in InsertMeter.  `irq` is whether the pulse    *)
(* interrupt is attached, `pc` the statement update() is at (the interrupt *)
(* can run between two statements of update()).  `hits` and `span` are     *)
(* history: the pulses counted since the last finalized burst and the      *)
(* time since the first of them, counted up to SpanCap; `sum` is the sum   *)
(* of the table values of the bursts finalized since the last reset        *)
(* command.                                                                *)

k_ulCoinDetectTimeout == 300
k_ulCoinDebounceTime == 50
COIN_BURST_TIMEOUT_MS == 50
MeterQuietMs == 300

MaxPulses == 10         \* the pulse interrupt stops counting here
MaxTotal == 1           \* bursts are classified while the total is at most this

SlotSketches == {"slot", "oldslot", "meter"}

SpanCap == MaxPulses * k_ulCoinDebounceTime

CS_Init(sk) ==
    [s_ulPulseCount |-> 0, s_ulLastPulseTime |-> 0, s_bCoinActive |-> FALSE,
     s_nTotalValue |-> 0, m_bIsAttached |-> FALSE, irq |-> (sk \in {"oldslot", "meter"}),
     pc |-> "idle", hits |-> 0, span |-> 0, sum |-> 0]

CS_sendEventJson(value, total) ==
    Msg("CoinSlot", "event", "coin", "-", value, total, "-")

CS_sendStatusJson(s) ==
    Msg("CoinSlot", "status", "status", "-", s.s_nTotalValue, 0,
        IF s.m_bIsAttached THEN "attached" ELSE "detached")

CS_sendAckJson(action, ok, status) ==
    Msg("CoinSlot", "ack", action, IF ok THEN "true" ELSE "false", 0, 0, status)

\* Serial.println of the coin_slot sketch: a value or a text
OS_println(what, value) == Msg("CoinSlotISR", "line", what, "-", value, 0, "-")

\* mutant: every edge counts
CS_debounced_off(t, last, interval) == TRUE

\* now - s_ulLastPulseTime > k_ulCoinDebounceTime
CS_debounced(t, last, interval) == t - last > interval

\* the pulse interrupt at time t (coinPulseISR, InsertMeter::isr)
CS_coinPulseISR(s, t, sk) ==
    IF CS_debounced(t, s.s_ulLastPulseTime,
                    IF sk = "meter" THEN COIN_BURST_TIMEOUT_MS ELSE k_ulCoinDebounceTime)
    THEN [s EXCEPT !.s_ulPulseCount = @ + 1, !.s_ulLastPulseTime = t,
                   !.s_bCoinActive = IF sk = "meter" THEN @ ELSE TRUE]
    ELSE s

\* mutant: three pulses read as a 10
CS_getCoinValue_bad(count) ==
    CASE count = 1 -> 1 [] count = 3 -> 10 [] count = 6 -> 10 [] count = 9 -> 20
      [] OTHER -> 0

CS_getCoinValue(count) ==
    CASE count = 1 -> 1 [] count = 3 -> 5 [] count = 6 -> 10 [] count = 9 -> 20
      [] OTHER -> 0

SLStep(s, out) == [s |-> s, out |-> out]

\* CoinSlotISR::finalizeCoin of the main sketch
CS_finalizeCoin(s, count) ==
    LET value == CS_getCoinValue(count)
        s1 == [s EXCEPT !.s_nTotalValue = @ + value]
    IN  SLStep(s1, IF value > 0 THEN <<CS_sendEventJson(value, s1.s_nTotalValue)>> ELSE <<>>)

\* CoinSlotISR::processCoin of the coin_slot sketch
OS_processCoin(s, count) ==
    LET value == CS_getCoinValue(count)
    IN  SLStep([s EXCEPT !.s_nTotalValue = @ + value], <<OS_println("value", value)>>)

\* InsertMeter::classify
IM_classify(s, p) ==
    SLStep([s EXCEPT !.s_nTotalValue = @ + CS_getCoinValue(p)], <<>>)

\* the burst is over: the test of update(), handle() and InsertMeter::loop()
CS_burstOver(s, t, sk) ==
    IF sk = "meter"
    THEN s.s_ulPulseCount > 0 /\ t - s.s_ulLastPulseTime > MeterQuietMs
    ELSE s.s_bCoinActive /\ t - s.s_ulLastPulseTime > k_ulCoinDetectTimeout

\* update() up to and including the call that classifies the burst
CS_update(s, t, sk) ==
    IF CS_burstOver(s, t, sk)
    THEN LET f == CASE sk = "slot" -> CS_finalizeCoin(s, s.s_ulPulseCount)
                    [] sk = "oldslot" -> OS_processCoin(s, s.s_ulPulseCount)
                    [] OTHER -> IM_classify(s, s.s_ulPulseCount)
         IN  SLStep([f.s EXCEPT !.pc = "clearCount"], f.out)
    ELSE SLStep(s, <<>>)

CS_detach(s) ==
    IF s.m_bIsAttached THEN [s EXCEPT !.irq = FALSE, !.m_bIsAttached = FALSE] ELSE s

\* mutant: attaches and reports success without looking at the flag
CS_reattach_always(s) ==
    [s |-> [s EXCEPT !.irq = TRUE, !.m_bIsAttached = TRUE], ret |-> TRUE]

CS_reattach(s) ==
    IF ~s.m_bIsAttached
    THEN [s |-> [s EXCEPT !.irq = TRUE, !.m_bIsAttached = TRUE], ret |-> TRUE]
    ELSE [s |-> s, ret |-> FALSE]

CS_attachCommand(s) ==
    LET a == CS_reattach(s)
    IN  SLStep(a.s, <<CS_sendAckJson("attach", TRUE,
                                     IF a.ret THEN "attached" ELSE "already_attached")>>)

CS_detachCommand(s) ==
    SLStep(CS_detach(s), <<CS_sendAckJson("detach", TRUE, "detached")>>)

\* mutant: the reset leaves the total
CS_resetTotal_keep(s) == s

CS_resetTotal(s) == [s EXCEPT !.s_nTotalValue = 0]

CS_processJsonCommand(s, line) ==
    IF line.cmd = "get"
    THEN SLStep(s, <<CS_sendStatusJson(s), CS_sendAckJson("get", TRUE, "-")>>)
    ELSE IF line.cmd = "reset"
    THEN SLStep(CS_resetTotal(s),
                <<CS_sendStatusJson(CS_resetTotal(s)), CS_sendAckJson("reset", TRUE, "-")>>)
    ELSE IF line.cmd = "attach"
    THEN CS_attachCommand(s)
    ELSE IF line.cmd = "detach"
    THEN CS_detachCommand(s)
    ELSE IF line.cmd = "status"
    THEN SLStep(s, <<CS_sendStatusJson(s)>>)
    ELSE SLStep(s, <<CS_sendAckJson(line.cmd, FALSE, "unknown_cmd")>>)

\* the text of a line is the one word `word`
IsWord(line, word) ==
    ~line.json /\ line.prefix = "" /\ line.verb = word /\ line.digits = <<>>

\* the text of a line is first_second
IsPair(line, first, second) ==
    ~line.json /\ line.prefix = first /\ line.verb = second /\ line.digits = <<>>

CS_processLegacyCommand(s, line) ==
    IF IsWord(line, "get")
    THEN SLStep(s, <<CS_sendStatusJson(s)>>)
    ELSE IF IsWord(line, "reset")
    THEN SLStep(CS_resetTotal(s), <<CS_sendStatusJson(CS_resetTotal(s))>>)
    ELSE IF IsWord(line, "attach") \/ IsPair(line, "coinslot", "start")
    THEN CS_attachCommand(s)
    ELSE IF IsWord(line, "detach") \/ IsPair(line, "coinslot", "stop")
    THEN CS_detachCommand(s)
    ELSE IF IsWord(line, "status")
    THEN SLStep(s, <<CS_sendStatusJson(s)>>)
    ELSE SLStep(s, <<CS_sendAckJson("line", FALSE, "unknown_cmd")>>)

CS_isJsonForMe(line) == line.json /\ line.v = 1 /\ line.target = "CoinSlot"

CS_handleSerial(s, line) ==
    IF CS_isJsonForMe(line)
    THEN CS_processJsonCommand(s, line)
    ELSE CS_processLegacyCommand(s, line)

\* CoinSlotISR::processCommand of the coin_slot sketch
OS_processCommand(s, line) ==
    IF IsWord(line, "get")
    THEN SLStep(s, <<OS_println("value", s.s_nTotalValue)>>)
    ELSE IF IsWord(line, "reset")
    THEN SLStep(CS_resetTotal(s), <<OS_println("value", 0)>>)
    ELSE SLStep(s, <<OS_println("Unknown command", 0)>>)

\* InsertMeter::reset
IM_reset(s) == [s EXCEPT !.s_nTotalValue = 0, !.s_ulPulseCount = 0]

\* the command of the coin slot a line carries
CS_route(line) ==
    IF CS_isJsonForMe(line)
    THEN Route("json", IF line.cmd \in {"get", "reset", "attach", "detach", "status"}
                       THEN line.cmd ELSE "unknown", 0)
    ELSE IF IsWord(line, "get") \/ IsWord(line, "reset") \/ IsWord(line, "status")
    THEN Route("legacy", line.verb, 0)
    ELSE IF IsWord(line, "attach") \/ IsPair(line, "coinslot", "start")
    THEN Route("legacy", "attach", 0)
    ELSE IF IsWord(line, "detach") \/ IsPair(line, "coinslot", "stop")
    THEN Route("legacy", "detach", 0)
    ELSE Route("legacy", "unknown", 0)

SlotLines ==
    {JsonLine(1, "CoinSlot", c, FALSE, "", FALSE, 0) :
        c \in {"get", "reset", "attach", "detach", "status", "bogus"}}
    \cup {TextLine("", w, <<>>) : w \in {"get", "reset", "attach", "detach", "status", "bogus"}}
    \cup {TextLine("coinslot", w, <<>>) : w \in {"start", "stop"}}
    \cup {JsonLine(1, "CoinCounter", "reset", TRUE, CounterName, FALSE, 0),
          JsonLine(2, "CoinSlot", "reset", FALSE, "", FALSE, 0),
          TextLine("counter", "reset", <<>>)}

----------------------------------------------------------------------------
(* PaperDispenser of the stepper-motor sketch.  dispense() blocks: `pc` is *)
(* where the call stands ("loop" when it is not running), `limit` the      *)
(* limit switch, `stuck` a switch that never asserts, and `waited` the     *)
(* time the call has spent in _waitForLimitSwitch(), counted up to         *)
(* HomingWaitMs (history).                                                 *)

BlockingRampDownMs == 8000
BlockingSheetDelayMs == 100

BP_Init(stuck, limit) ==
    [pc |-> "loop", numOfPapers |-> 0, i |-> 0, motor |-> "stop",
     limit |-> limit, stuck |-> stuck, waited |-> 0]

BP_println(what, n) == Msg("PaperDispenser", "line", what, "-", n, 0, "-")

BPStep(b, t, out) == [b |-> b, t |-> t, out |-> out]

\* dispense() up to the first _waitForLimitSwitch()
BP_dispense(b, numOfPapers) ==
    [b EXCEPT !.numOfPapers = numOfPapers, !.i = 0, !.motor = "forward",
              !.pc = "home", !.waited = 0]

\* while (!isLimitSwitchPressed()) { ...; delay(100); } is left only when the
\* switch reads pressed
BP_waitCanReturn(b) == b.pc \in {"home", "rehome"} /\ b.limit

\* the stepper turned one sheet (the time of the steps is not counted) and
\* the pause after it
BP_rotate(b, t) ==
    BPStep([b EXCEPT !.i = @ + 1, !.pc = "feed"], t + BlockingSheetDelayMs, <<>>)

\* the statements after _waitForLimitSwitch() returned
BP_afterWait(b, t) ==
    LET b1 == [b EXCEPT !.motor = "stop", !.waited = 0]
    IN  IF b.pc = "home"
        THEN BPStep([b1 EXCEPT !.pc = "feed"], t, <<BP_println("Initial position reached", 0)>>)
        ELSE BP_rotate(b1, t)

\* rampDown() and the return of dispense()
BP_rampDown(b, t) ==
    BPStep([b EXCEPT !.motor = "stop", !.pc = "loop"], t + BlockingRampDownMs,
           <<BP_println("Ramp down complete", 0), BP_println("Dispensing complete", 0)>>)

\* the head of the for loop
BP_feed(b, t) ==
    IF b.i < b.numOfPapers
    THEN IF ~b.limit
         THEN BPStep([b EXCEPT !.motor = "forward", !.pc = "rehome"], t,
                     <<BP_println("Dispensing paper", b.i + 1)>>)
         ELSE LET r == BP_rotate(b, t)
              IN  BPStep(r.b, r.t, <<BP_println("Dispensing paper", b.i + 1)>>)
    ELSE BP_rampDown(b, t)

----------------------------------------------------------------------------
(* History.  `op` is the last call: which handler, the command it ran, the *)
(* amount it read, its input flag (coin edge, limit switch), whether the   *)
(* watchdog time had already elapsed for a running job when it was called  *)
(* and whether it counted a unit.  `job` is reset by every accepted start: *)
(* the timeout and completion messages written since, whether stop() was   *)
(* called on the running job, and for the paper feed the states entered    *)
(* and the sheets fed as long as the job is clean (every limit switch read *)
(* was asserted and no stop was requested), and `dark`, the time the paper *)
(* feed has been HOMING (every sample of the limit switch unasserted),     *)
(* counted up to HomingWaitMs.                                             *)

\* the bounded wait for the limit switch (waitForLimitSwitch)
HomingWaitMs == 10000

Op(call, cmd, n, flag, late, hit) ==
    [call |-> call, cmd |-> cmd, n |-> n, flag |-> flag, late |-> late, hit |-> hit,
     form |-> "-", to |-> "-", family |-> "-"]

\* the call handled a command line: its form, the instance name and the
\* target family written in it
OpLine(o, line) ==
    [o EXCEPT !.form = IF line.json THEN "json" ELSE "legacy", !.to = Addressee(line),
              !.family = IF line.json THEN line.target ELSE ""]

NewJob(n, path) ==
    [n |-> n, timeouts |-> 0, completes |-> 0, stopped |-> FALSE, path |-> path,
     feeds |-> 0, clean |-> TRUE, dark |-> 0]

IsTimeoutMsg(m) == m.what = "timeout"
IsCompleteMsg(m) == m.what \in {"target_reached", "dispense_complete"}

\* the acks, and the status and event messages, among the lines written
CountAcks(s) == Cardinality({i \in 1 .. Len(s) : s[i].type = "ack"})
CountReports(s) == Cardinality({i \in 1 .. Len(s) : s[i].type \in {"status", "event"}})

CountTimeouts(s) == Cardinality({i \in 1 .. Len(s) : IsTimeoutMsg(s[i])})
CountCompletes(s) == Cardinality({i \in 1 .. Len(s) : IsCompleteMsg(s[i])})

\* the job history after a call that wrote `out`
JobAfter(j, started, n, out, stopNow, state, fed, dirty) ==
    IF started
    THEN NewJob(n, <<state>>)
    ELSE LET clean == j.clean /\ ~dirty /\ ~stopNow
         IN  [n |-> j.n,
              timeouts |-> j.timeouts + CountTimeouts(out),
              completes |-> j.completes + CountCompletes(out),
              stopped |-> j.stopped \/ stopNow,
              path |-> IF ~clean THEN <<>>
                       ELSE IF j.path # <<>> /\ j.path[Len(j.path)] # state
                       THEN Append(j.path, state) ELSE j.path,
              feeds |-> IF ~clean THEN 0 ELSE j.feeds + (IF fed THEN 1 ELSE 0),
              clean |-> clean,
              dark |-> IF state = "HOMING" THEN j.dark ELSE 0]

----------------------------------------------------------------------------
(* RelayHopper as a component of its own (the relay sketch).  `relays` is  *)
(* m_bRelayStates; rh.level is the level digitalWrite left on each of the  *)
(* three relay pins (TRUE = HIGH = OFF), rh.stray whether a store has been *)
(* made through m_bRelayStates[i] with i outside 0..2.  An index outside   *)
(* the arrays is undefined behaviour: the store lands outside the array,   *)
(* and the pin number read from outside m_nRelayPins is any byte, that of  *)
(* a relay pin or not.                                                     *)

RH_Init == [level |-> [i \in 1 .. 3 |-> TRUE], stray |-> FALSE]

RelayNums == 0 .. 4

RelayLine(json, cmd, hasValue, value, hasState, state, prefix, verb) ==
    [json |-> json, v |-> IF json THEN 1 ELSE 0, target |-> IF json THEN "Relay" ELSE "",
     cmd |-> cmd, hasName |-> FALSE, name |-> "", hasValue |-> hasValue, value |-> value,
     prefix |-> prefix, verb |-> verb, digits |-> <<>>,
     hasState |-> hasState, state |-> state]

RelayLines ==
    {RelayLine(TRUE, "setRelay", TRUE, n, TRUE, st, "", "") :
        n \in RelayNums, st \in {"on", "off"}}
    \cup {RelayLine(TRUE, "setRelay", TRUE, 1, TRUE, "bogus", "", ""),
          RelayLine(TRUE, "setRelay", FALSE, 0, TRUE, "on", "", ""),
          RelayLine(TRUE, "setRelay", TRUE, 1, FALSE, "", "", ""),
          RelayLine(TRUE, "get", FALSE, 0, FALSE, "", "", ""),
          RelayLine(TRUE, "bogus", FALSE, 0, FALSE, "", "", ""),
          RelayLine(FALSE, "", FALSE, 0, FALSE, "", "relay4", "on"),
          RelayLine(FALSE, "", FALSE, 0, FALSE, "", "counter", "reset")}
    \cup {RelayLine(FALSE, "", FALSE, 0, FALSE, "", pre, vb) :
            pre \in {"relay1", "relay2", "relay3"}, vb \in {"on", "off"}}

\* relay1, relay2, relay3
RelayWord(k) == CASE k = 1 -> "relay1" [] k = 2 -> "relay2" [] OTHER -> "relay3"

RH_sendStatusJson(states) ==
    Msg("Relay", "status", "status", "-", 0, 0, "-")

RH_sendErrorJson(action, relay, errorMessage) ==
    Msg("Relay", "error", action, "-", IF relay > 0 THEN relay ELSE 0, 0, errorMessage)

RHStep(states, h, out) == [states |-> states, h |-> h, out |-> out]

\* digitalWrite(m_nRelayPins[relayNum - 1], ...): stray is the relay pin the
\* byte read from outside m_nRelayPins names (0: none of the three)
RH_digitalWrite(h, relayNum, state, stray) ==
    IF relayNum \in 1 .. 3
    THEN [h EXCEPT !.level[relayNum] = state]
    ELSE IF stray \in 1 .. 3 THEN [h EXCEPT !.level[stray] = state] ELSE h

\* m_bRelayStates[relayNum - 1] = state
RH_store(states, h, relayNum, state) ==
    IF relayNum \in 1 .. 3
    THEN [states |-> [states EXCEPT ![relayNum] = state], h |-> h]
    ELSE [states |-> states, h |-> [h EXCEPT !.stray = TRUE]]

\* RelayHopper::setRelay with its pin
RH_setRelay(states, h, relayNum, state) ==
    LET s == RelayHopper_setRelay(states, relayNum, state)
    IN  RHStep(s.states,
               IF relayNum >= 1 /\ relayNum <= 3
               THEN RH_digitalWrite(h, relayNum, state, 0) ELSE h,
               s.out)

RH_processJsonCommand(states, h, line, stray) ==
    IF line.cmd = "setRelay"
    THEN IF ~line.hasValue \/ ~line.hasState
         THEN RHStep(states, h, <<RH_sendErrorJson("setRelay", 0, "missing_parameters")>>)
         ELSE IF line.state \notin {"on", "off"}
         THEN RHStep(states, h, <<RH_sendErrorJson("setRelay", line.value, "invalid_state")>>)
         ELSE LET state == (line.state = "off")
                  st == RH_store(states, RH_digitalWrite(h, line.value, state, stray),
                                 line.value, state)
              IN  RHStep(st.states, st.h,
                         <<Relay_sendAckJson("set", line.value, IF state THEN "OFF" ELSE "ON")>>)
    ELSE IF line.cmd = "get"
    THEN RHStep(states, h, <<RH_sendStatusJson(states)>>)
    ELSE RHStep(states, h, <<RH_sendErrorJson(line.cmd, 0, "unknown_command")>>)

RH_processLegacyCommand(states, h, line) ==
    IF \E k \in 1 .. 3 : IsPair(line, RelayWord(k), "on") \/ IsPair(line, RelayWord(k), "off")
    THEN LET k == CHOOSE i \in 1 .. 3 :
                      IsPair(line, RelayWord(i), "on") \/ IsPair(line, RelayWord(i), "off")
         IN  RH_setRelay(states, h, k, IsPair(line, RelayWord(k), "off"))
    ELSE RHStep(states, h, <<>>)

RH_handleSerial(states, h, line, stray) ==
    IF line.json /\ line.v = 1 /\ line.target = "Relay"
    THEN RH_processJsonCommand(states, h, line, stray)
    ELSE RH_processLegacyCommand(states, h, line)

----------------------------------------------------------------------------
(* The sliding time frame *)

HopperDelays == {150, 500, 3000}
PaperDelays == {1000, 8000}
SlotDelays == {50, 100, 301}
HopperSlowDelays == {500, 3000}         \* loop() passes far apart
HopperFineDelays == {25, 500}     \* loop() passes less than 50 ms apart
StepperDelays == {100, 1000}

Window ==
    CASE sketch = "counter" -> k_ulTimeoutDuration
      [] sketch = "hopper" -> HOPPER_MAX_GAP_MS
      [] sketch \in SlotSketches -> k_ulCoinDetectTimeout + 1
      [] OTHER -> k_ulRampDownTime

Shift(t) == IF t > Window THEN t - Window ELSE 0

\* millis() in the rebased frame
NowAt(t) == t - Shift(t)

\* a stamp in the frame rebased at time t; cap is the largest threshold the
\* stamp is compared with
Rebase(stamp, t, cap) ==
    LET s1 == IF stamp > Shift(t) THEN stamp - Shift(t) ELSE 0
    IN  IF NowAt(t) - s1 > cap THEN NowAt(t) - cap ELSE s1

CC_rebase(c, t) ==
    [c EXCEPT !.m_ulLastCoinTime = Rebase(@, t, k_ulTimeoutDuration),
              !.m_ulLastStatusTime = Rebase(@, t, k_ulStatusInterval)]

HP_rebase(h, t) ==
    [h EXCEPT !.lastCoin_ = Rebase(@, t, HOPPER_MAX_GAP_MS),
              !.pulseStart_ = Rebase(@, t, HOPPER_PULSE_MS),
              !.coolStart_ = Rebase(@, t, HOPPER_COOL_MS)]

\* the stamp is compared with > k_ulCoinDetectTimeout; d ms have passed
CS_rebase(s, t, d) ==
    [s EXCEPT !.s_ulLastPulseTime = Rebase(@, t, k_ulCoinDetectTimeout + 1),
              !.span = IF s.hits = 0 THEN 0
                       ELSE IF @ + d > SpanCap THEN SpanCap ELSE @ + d]

\* d ms pass while dispense() waits for the limit switch
BP_wait(b, d) ==
    IF b.pc \in {"home", "rehome"}
    THEN [b EXCEPT !.waited = IF @ + d > HomingWaitMs THEN HomingWaitMs ELSE @ + d]
    ELSE b

PD_rebase(p, t) ==
    [p EXCEPT !.m_ulLastStatusTime = Rebase(@, t, k_ulStatusInterval),
              !.m_ulRampDownStartTime = Rebase(@, t, k_ulRampDownTime)]

----------------------------------------------------------------------------
(* The sketches *)

InitState ==
    /\ now = Window
    /\ serial = <<>>
    /\ btnArmed = TRUE
    /\ cc = CC_Init
    /\ relays = [i \in 1 .. 3 |-> TRUE]
    /\ hp \in {HP_Init(b) : b \in IF sketch = "hopper" THEN BOOLEAN ELSE {FALSE}}
    /\ pd = PD_Init
    /\ sl = CS_Init(sketch)
    /\ bp \in {BP_Init(st, lm) : st \in (IF sketch = "stepper" THEN BOOLEAN ELSE {FALSE}),
                                 lm \in (IF sketch = "stepper" THEN BOOLEAN ELSE {FALSE})}
    /\ bp.stuck => ~bp.limit
    /\ rh = RH_Init
    /\ op = Op("init", "-", 0, FALSE, FALSE, FALSE)
    /\ job = NewJob(0, <<>>)

Init ==
    /\ sketch \in {"counter", "hopper", "paper"}
    /\ InitState

Delays ==
    CASE sketch = "counter" -> CounterDelays
      [] sketch = "hopper" -> HopperDelays
      [] sketch \in SlotSketches -> SlotDelays
      [] sketch = "stepper" -> StepperDelays
      [] OTHER -> PaperDelays

\* time passes between two handler calls
Advance ==
    \E d \in Delays :
        /\ now' = NowAt(now + d)
        /\ cc' = CC_rebase(cc, now + d)
        /\ hp' = HP_rebase(hp, now + d)
        /\ pd' = PD_rebase(pd, now + d)
        /\ btnArmed' = TRUE
        /\ serial' = <<>>
        /\ op' = Op("Advance", "-", 0, FALSE, FALSE, FALSE)
        /\ job' = [job EXCEPT !.dark = IF sketch = "paper" /\ pd.m_eState = "HOMING"
                                        THEN (IF @ + d > HomingWaitMs THEN HomingWaitMs ELSE @ + d)
                                        ELSE @]
        /\ sl.pc = "idle" /\ bp.pc \in {"loop", "home", "rehome"}
        /\ sl' = IF sketch \in SlotSketches THEN CS_rebase(sl, now + d, d) ELSE sl
        /\ bp' = IF sketch = "stepper" THEN BP_wait(bp, d) ELSE bp
        /\ UNCHANGED <<sketch, rh, relays>>

\* time passes between two passes of the hopper sketch's loop()
AdvanceFine ==
    \E d \in HopperFineDelays :
        /\ sketch = "hopper"
        /\ now' = NowAt(now + d)
        /\ hp' = HP_rebase(hp, now + d)
        /\ btnArmed' = TRUE
        /\ serial' = <<>>
        /\ op' = Op("Advance", "-", 0, FALSE, FALSE, FALSE)
        /\ UNCHANGED <<sketch, rh, relays, cc, pd, sl, bp, job>>

CC_late(c, t) == c.m_bDispensing /\ CC_timeoutElapsed(t, c.m_ulLastCoinTime)

CounterUpdate ==
    \E pressed \in BOOLEAN :
        /\ sketch = "counter"
        /\ pressed => (btnArmed /\ cc.m_nCurrentCount < MaxCount)
        /\ LET s == CC_update(cc, relays, now, pressed)
           IN  /\ cc' = s.c
               /\ relays' = s.r
               /\ serial' = s.out
               /\ job' = JobAfter(job, FALSE, 0, s.out, FALSE, "-", FALSE, FALSE)
        /\ btnArmed' = (btnArmed /\ ~pressed)
        /\ op' = Op("CC_update", "-", 0, pressed, CC_late(cc, now), pressed)
        /\ UNCHANGED <<sketch, rh, sl, bp, now, hp, pd>>

CounterCommand ==
    \E line \in CounterLines :
        /\ sketch = "counter"
        /\ LET s == CC_handleSerial(cc, relays, now, line)
               rt == CC_route(line)
           IN  /\ cc' = s.c
               /\ relays' = s.r
               /\ serial' = s.out
               /\ op' = OpLine(Op("CC_handleSerial", rt.cmd, rt.n, cc.m_bDispensing,
                                   CC_late(cc, now), FALSE), line)
               /\ job' = JobAfter(job, rt.cmd = "dispense" /\ rt.n > 0, rt.n, s.out,
                                  rt.cmd = "stop" /\ cc.m_bDispensing, "-", FALSE, FALSE)
        /\ UNCHANGED <<sketch, rh, sl, bp, now, btnArmed, hp, pd>>

HP_late(h, t) == h.busy_ /\ HP_gapElapsed(t, h.lastCoin_)

HopperStart ==
    \E n \in 0 .. MaxAmount :
        /\ sketch = "hopper"
        /\ LET s == HP_start(hp, now, n)
           IN  /\ hp' = IF s.t > now THEN HP_rebase(s.h, s.t) ELSE s.h
               /\ serial' = s.out
               /\ now' = NowAt(s.t)
               /\ btnArmed' = (btnArmed \/ s.t > now)
               /\ op' = Op("HP_start", IF s.ret THEN "true" ELSE "false", n, hp.busy_, HP_late(hp, now), FALSE)
               /\ job' = JobAfter(job, s.ret, n, s.out, FALSE, "-", FALSE, FALSE)
        /\ UNCHANGED <<sketch, rh, sl, bp, cc, relays, pd>>

HopperStop ==
    /\ sketch = "hopper"
    /\ LET s == HP_stop(hp)
       IN  /\ hp' = s.h
           /\ serial' = s.out
           /\ job' = JobAfter(job, FALSE, 0, s.out, hp.busy_, "-", FALSE, FALSE)
    /\ op' = Op("HP_stop", "-", 0, hp.busy_, HP_late(hp, now), FALSE)
    /\ UNCHANGED <<sketch, rh, sl, bp, now, btnArmed, cc, relays, pd>>

HopperReset ==
    /\ sketch = "hopper"
    /\ LET s == HP_reset(hp, now)
       IN  /\ hp' = IF s.t > now THEN HP_rebase(s.h, s.t) ELSE s.h
           /\ serial' = s.out
           /\ now' = NowAt(s.t)
           /\ job' = JobAfter(job, FALSE, 0, s.out, FALSE, "-", FALSE, FALSE)
    /\ btnArmed' = TRUE
    /\ op' = Op("HP_reset", "-", 0, hp.busy_, HP_late(hp, now), FALSE)
    /\ UNCHANGED <<sketch, rh, sl, bp, cc, relays, pd>>

HopperLoop ==
    \E currentState \in BOOLEAN :
        /\ sketch = "hopper"
        /\ currentState => (btnArmed /\ hp.busy_)
        /\ LET s == HP_loop(hp, now, currentState)
           IN  /\ hp' = s.h
               /\ serial' = s.out
               /\ job' = JobAfter(job, FALSE, 0, s.out, FALSE, "-", FALSE, FALSE)
               /\ op' = Op("HP_loop", "-", 0, currentState, HP_late(hp, now),
                           s.h.count_ # hp.count_)
        /\ btnArmed' = (btnArmed /\ ~currentState)
        /\ UNCHANGED <<sketch, rh, sl, bp, now, cc, relays, pd>>

\* the call reads the limit switch
PD_samples(p) ==
    \/ p.m_eState = "HOMING"
    \/ p.m_eState = "DISPENSING" /\ ~PD_feedDone(p)

\* a job is homing or feeding
PD_midRun(p) == p.m_bDispensing /\ p.m_eState \in {"HOMING", "DISPENSING"}

PaperUpdate ==
    \E limit \in BOOLEAN :
        /\ sketch = "paper"
        /\ ~limit => PD_samples(pd)
        /\ LET s == PD_update(pd, now, limit)
           IN  /\ pd' = PD_rebase(s.p, s.t)
               /\ serial' = s.out
               /\ now' = NowAt(s.t)
               /\ job' = JobAfter(job, FALSE, 0, s.out, FALSE, s.p.m_eState,
                                  s.p.m_nCurrentPaper = pd.m_nCurrentPaper + 1,
                                  PD_samples(pd) /\ ~limit)
        /\ op' = Op("PD_update", "-", 0, limit, FALSE, FALSE)
        /\ UNCHANGED <<sketch, rh, sl, bp, btnArmed, cc, relays, hp>>

PaperCommand ==
    \E line \in PaperLines :
        /\ sketch = "paper"
        /\ LET s == PD_handleSerial(pd, now, line)
               rt == PD_route(line)
           IN  /\ pd' = s.p
               /\ serial' = s.out
               /\ op' = OpLine(Op("PD_handleSerial", rt.cmd, rt.n, pd.m_bDispensing, FALSE, FALSE),
                              line)
               /\ job' = JobAfter(job, rt.cmd = "dispense" /\ rt.n > 0, rt.n, s.out,
                                  rt.cmd = "stop" /\ PD_midRun(pd), s.p.m_eState, FALSE, FALSE)
        /\ UNCHANGED <<sketch, rh, sl, bp, now, btnArmed, cc, relays, hp>>

\* a falling edge on the pulse pin while the interrupt is attached
SlotEdge ==
    /\ sketch \in SlotSketches
    /\ sl.irq /\ sl.s_ulPulseCount < MaxPulses
    /\ LET s == CS_coinPulseISR(sl, now, sketch)
           counted == s.s_ulPulseCount # sl.s_ulPulseCount
       IN  /\ sl' = [s EXCEPT !.hits = IF counted THEN @ + 1 ELSE @,
                              !.span = IF counted /\ sl.hits = 0 THEN 0 ELSE @]
           /\ op' = Op("coinPulseISR", "-", 0, FALSE, FALSE, counted)
    /\ UNCHANGED <<sketch, rh, now, serial, btnArmed, cc, relays, hp, pd, bp, job>>

\* update(), handle(), InsertMeter::loop(): the test and the classification
SlotUpdate ==
    /\ sketch \in SlotSketches
    /\ sl.pc = "idle"
    /\ LET u == CS_update(sl, now, sketch)
           over == CS_burstOver(sl, now, sketch)
       IN  /\ over => sl.s_nTotalValue <= MaxTotal
           /\ sl' = IF over
                    THEN [u.s EXCEPT !.hits = 0, !.span = 0,
                                     !.sum = @ + (CASE sl.s_ulPulseCount = 1 -> 1
                                                    [] sl.s_ulPulseCount = 3 -> 5
                                                    [] sl.s_ulPulseCount = 6 -> 10
                                                    [] sl.s_ulPulseCount = 9 -> 20
                                                    [] OTHER -> 0)]
                    ELSE u.s
           /\ serial' = u.out
           /\ op' = Op("CS_update", "-", IF over THEN sl.s_ulPulseCount ELSE 0, over, FALSE, FALSE)
    /\ UNCHANGED <<sketch, rh, now, btnArmed, cc, relays, hp, pd, bp, job>>

\* s_ulPulseCount = 0
SlotClearCount ==
    /\ sketch \in SlotSketches
    /\ sl.pc = "clearCount"
    /\ sl' = [sl EXCEPT !.s_ulPulseCount = 0,
                        !.pc = IF sketch = "meter" THEN "idle" ELSE "clearActive"]
    /\ op' = Op("CS_update_clearCount", "-", 0, FALSE, FALSE, FALSE)
    /\ UNCHANGED <<sketch, rh, now, serial, btnArmed, cc, relays, hp, pd, bp, job>>

\* s_bCoinActive = false
SlotClearActive ==
    /\ sketch \in SlotSketches
    /\ sl.pc = "clearActive"
    /\ sl' = [sl EXCEPT !.s_bCoinActive = FALSE, !.pc = "idle"]
    /\ op' = Op("CS_update_clearActive", "-", 0, FALSE, FALSE, FALSE)
    /\ UNCHANGED <<sketch, rh, now, serial, btnArmed, cc, relays, hp, pd, bp, job>>

\* a command line (main and coin_slot sketch), a reset() call (InsertMeter)
SlotCommand ==
    \E line \in SlotLines :
        /\ sketch \in SlotSketches
        /\ sl.pc = "idle"
        /\ sketch = "meter" => IsWord(line, "reset")
        /\ sketch = "oldslot" => ~line.json /\ line.prefix = ""
        /\ LET u == CASE sketch = "slot" -> CS_handleSerial(sl, line)
                      [] sketch = "oldslot" -> OS_processCommand(sl, line)
                      [] OTHER -> SLStep([IM_reset(sl) EXCEPT !.hits = 0, !.span = 0], <<>>)
               rt == CS_route(line)
           IN  /\ sl' = [u.s EXCEPT !.sum = IF rt.cmd = "reset" THEN 0 ELSE @]
               /\ serial' = u.out
               /\ op' = OpLine(Op(CASE sketch = "slot" -> "CS_handleSerial"
                                    [] sketch = "oldslot" -> "OS_processCommand"
                                    [] OTHER -> "IM_reset",
                                  rt.cmd, 0, sl.m_bIsAttached, FALSE, FALSE), line)
        /\ UNCHANGED <<sketch, rh, now, btnArmed, cc, relays, hp, pd, bp, job>>

\* the sketch calls dispense(n); the call runs up to its first wait
StepperDispense ==
    \E n \in 0 .. MaxAmount :
        /\ sketch = "stepper"
        /\ bp.pc = "loop"
        /\ bp' = BP_dispense(bp, n)
        /\ serial' = <<BP_println("Dispensing", n)>>
        /\ op' = Op("BP_dispense", "-", n, bp.limit, FALSE, FALSE)
        /\ UNCHANGED <<sketch, rh, now, btnArmed, cc, relays, hp, pd, sl, job>>

\* _waitForLimitSwitch() returns: the switch reads pressed
StepperWaitReturn ==
    /\ sketch = "stepper"
    /\ BP_waitCanReturn(bp)
    /\ LET s == BP_afterWait(bp, now)
       IN  /\ bp' = s.b
           /\ now' = NowAt(s.t)
           /\ serial' = s.out
    /\ op' = Op("BP_waitForLimitSwitch", "-", bp.numOfPapers, bp.limit, FALSE, FALSE)
    /\ UNCHANGED <<sketch, rh, btnArmed, cc, relays, hp, pd, sl, job>>

\* one pass of the for loop of dispense(), or the ramp down after it
StepperFeed ==
    /\ sketch = "stepper"
    /\ bp.pc = "feed"
    /\ LET s == BP_feed(bp, now)
       IN  /\ bp' = s.b
           /\ now' = NowAt(s.t)
           /\ serial' = s.out
    /\ op' = Op("BP_feed", "-", bp.numOfPapers, bp.limit, FALSE, FALSE)
    /\ UNCHANGED <<sketch, rh, btnArmed, cc, relays, hp, pd, sl, job>>

\* the limit switch changes, unless it is stuck unasserted
StepperSensor ==
    /\ sketch = "stepper"
    /\ ~bp.stuck
    /\ bp' = [bp EXCEPT !.limit = ~@]
    /\ UNCHANGED <<sketch, rh, now, serial, btnArmed, cc, relays, hp, pd, sl, op, job>>

\* a command line reaches the relay bank
RelayCommand ==
    \E line \in RelayLines, stray \in 0 .. 3 :
        /\ sketch = "relay"
        /\ stray # 0 => (line.json /\ line.cmd = "setRelay" /\ line.hasValue
                         /\ line.hasState /\ line.state \in {"on", "off"}
                         /\ line.value \notin 1 .. 3)
        /\ LET s == RH_handleSerial(relays, rh, line, stray)
           IN  /\ relays' = s.states
               /\ rh' = s.h
               /\ serial' = s.out
               /\ op' = OpLine(Op("RH_handleSerial",
                                  IF line.json THEN line.cmd ELSE line.verb,
                                  IF line.json THEN line.value ELSE 0,
                                  IF line.json THEN line.state = "off" ELSE line.verb = "off",
                                  FALSE,
                                  line.json /\ line.cmd = "setRelay" /\ line.hasValue
                                  /\ line.hasState /\ line.state \in {"on", "off"}),
                              line)
        /\ UNCHANGED <<sketch, now, btnArmed, cc, hp, pd, sl, bp, job>>

\* another module calls setRelay(relayNum, state)
RelaySet ==
    \E relayNum \in RelayNums, state \in BOOLEAN :
        /\ sketch = "relay"
        /\ LET s == RH_setRelay(relays, rh, relayNum, state)
           IN  /\ relays' = s.states
               /\ rh' = s.h
               /\ serial' = s.out
        /\ op' = Op("RH_setRelay", "-", relayNum, state, FALSE, TRUE)
        /\ UNCHANGED <<sketch, now, btnArmed, cc, hp, pd, sl, bp, job>>

Next ==
    \/ Advance
    \/ CounterUpdate
    \/ CounterCommand
    \/ HopperStart
    \/ HopperStop
    \/ HopperReset
    \/ HopperLoop
    \/ PaperUpdate
    \/ PaperCommand

Spec == Init /\ [][Next]_vars

\* one sketch at a time
NextCounter == Advance \/ CounterUpdate \/ CounterCommand
NextHopper == Advance \/ HopperStart \/ HopperStop \/ HopperReset \/ HopperLoop
NextPaper == Advance \/ PaperUpdate \/ PaperCommand

InitCounter == Init /\ sketch = "counter"
InitHopper == Init /\ sketch = "hopper"
InitPaper == Init /\ sketch = "paper"

SpecCounter == InitCounter /\ [][NextCounter]_vars
SpecHopper == InitHopper /\ [][NextHopper]_vars
SpecPaper == InitPaper /\ [][NextPaper]_vars

\* the hopper with loop() called on the 25 ms grain
NextDuty == AdvanceFine \/ HopperStart \/ HopperStop \/ HopperReset \/ HopperLoop
SpecDuty == InitHopper /\ [][NextDuty]_vars

\* the coin slot of the main sketch, of the coin_slot sketch, and InsertMeter
NextSlot ==
    \/ Advance
    \/ SlotEdge
    \/ SlotUpdate
    \/ SlotClearCount
    \/ SlotClearActive
    \/ SlotCommand

InitSlot == sketch \in SlotSketches /\ InitState

SpecSlot == InitSlot /\ [][NextSlot]_vars

\* the stepper-motor sketch
BP_step == StepperWaitReturn \/ StepperFeed

NextStepper ==
    \/ Advance
    \/ StepperDispense
    \/ StepperWaitReturn
    \/ StepperFeed
    \/ StepperSensor

InitStepper == sketch = "stepper" /\ InitState

SpecStepper == InitStepper /\ [][NextStepper]_vars

\* the relay bank
NextRelay == RelayCommand \/ RelaySet

InitRelay == sketch = "relay" /\ InitState

SpecRelay == InitRelay /\ [][NextRelay]_vars

\* The coin counter and the hopper with loop() running for ever: update()
\* and loop() are called again and again from the sketch's loop() and
\* millis() advances, so both and the passing of time are weakly fair.  The
\* passes of the hopper's loop() are 500 ms or more apart here.  A
\* command reaches the counter while a job runs only if it is not a
\* dispense: the job under observation is not replaced by a new one.
JobDelays == IF sketch = "counter" THEN CounterDelays ELSE HopperSlowDelays

\* time passes between two passes of loop()
AdvanceJobs ==
    \E d \in JobDelays :
        /\ sketch \in {"counter", "hopper"}
        /\ now' = NowAt(now + d)
        /\ cc' = CC_rebase(cc, now + d)
        /\ hp' = HP_rebase(hp, now + d)
        /\ btnArmed' = TRUE
        /\ serial' = <<>>
        /\ op' = Op("Advance", "-", 0, FALSE, FALSE, FALSE)
        /\ UNCHANGED <<sketch, rh, relays, pd, sl, bp, job>>

CounterCommandSameJob ==
    /\ CounterCommand
    /\ cc.m_bDispensing => op'.cmd # "dispense"

NextJobs ==
    \/ AdvanceJobs
    \/ CounterUpdate
    \/ CounterCommandSameJob
    \/ HopperStart
    \/ HopperStop
    \/ HopperReset
    \/ HopperLoop

InitJobs == sketch \in {"counter", "hopper"} /\ InitState

SpecJobs ==
    /\ InitJobs /\ [][NextJobs]_vars
    /\ WF_vars(AdvanceJobs) /\ WF_vars(CounterUpdate) /\ WF_vars(HopperLoop)

----------------------------------------------------------------------------
(* Properties *)

TimeoutMsgs == {i \in 1 .. Len(serial) : IsTimeoutMsg(serial[i])}

\* C1: for a job started with target > 0, count never exceeds target in any
\* reachable state up to the next reset() or start(), detections that arrive
\* after TargetReached, TimedOut or stop() included (CoinCounter and
\* HopperPayout).  CoinCounter::update counts every edge, so this fails.
C1_CountNeverExceedsTarget ==
    /\ cc.m_nTargetCount > 0 => cc.m_nCurrentCount <= cc.m_nTargetCount
    /\ hp.target_ > 0 => hp.count_ <= hp.target_

\* C2: while a job is Running, a tick that confirms no unit and finds that
\* 3000 ms or more have passed since the last unit ends the job TimedOut and
\* writes exactly one timeout error carrying (count, target); a timeout
\* error is written by no other step, so never sooner than 3000 ms after the
\* last unit; a job writes at most one timeout error.
C2_TimeoutStep ==
    /\ (op'.call = "CC_update" /\ ~op'.flag /\ cc.m_bDispensing
            /\ now - cc.m_ulLastCoinTime >= 3000)
       => /\ cc'.m_bTimedOut /\ ~cc'.m_bDispensing /\ ~cc'.m_bTargetReached
          /\ \E m \in {serial'[i] : i \in 1 .. Len(serial')} :
                /\ IsTimeoutMsg(m) /\ m.type = "error"
                /\ m.x = cc.m_nCurrentCount /\ m.y = cc.m_nTargetCount
    /\ (op'.call = "HP_loop" /\ ~op'.hit /\ hp.busy_ /\ now - hp.lastCoin_ >= 3000)
       => /\ ~hp'.busy_ /\ ~hp'.pin
          /\ \E m \in {serial'[i] : i \in 1 .. Len(serial')} :
                IsTimeoutMsg(m) /\ m.x = hp.count_ /\ m.y = hp.target_
    /\ (CountTimeouts(serial') > 0 \/ (cc'.m_bTimedOut /\ ~cc.m_bTimedOut))
       => /\ CountTimeouts(serial') = 1
          /\ \/ /\ op'.call = "CC_update" /\ ~op'.flag /\ cc.m_bDispensing
                /\ now - cc.m_ulLastCoinTime >= 3000
             \/ /\ op'.call = "HP_loop" /\ ~op'.hit /\ hp.busy_
                /\ now - hp.lastCoin_ >= 3000
    /\ job'.timeouts <= 1

C2_TimeoutExactlyOnce == [][C2_TimeoutStep]_vars

\* a tick has just timed a running counter job out
C2_Witness ==
    /\ op.call = "CC_update" /\ op.late /\ ~op.hit
    /\ cc.m_bTimedOut /\ job.timeouts = 1 /\ TimeoutMsgs # {}

\* C3: an update pass that confirms a unit while the time since the previous
\* unit already satisfies the timeout handles the unit first: when the unit
\* brings count to target the job ends TargetReached with its event, else the
\* job stays Running; the pass writes no timeout error and never ends
\* TimedOut.
C3_UnitStep ==
    /\ (op'.call = "CC_update" /\ op'.flag /\ cc.m_bDispensing
            /\ now - cc.m_ulLastCoinTime >= 3000)
       => /\ CountTimeouts(serial') = 0
          /\ ~cc'.m_bTimedOut
          /\ cc'.m_nCurrentCount = cc.m_nCurrentCount + 1
          /\ IF cc.m_nCurrentCount + 1 >= cc.m_nTargetCount
             THEN /\ cc'.m_bTargetReached /\ ~cc'.m_bDispensing
                  /\ CountMsgs(serial', "event", "target_reached") = 1
             ELSE cc'.m_bDispensing /\ ~cc'.m_bTargetReached
    /\ (op'.call = "HP_loop" /\ op'.hit /\ hp.busy_ /\ now - hp.lastCoin_ >= 3000)
       => /\ CountTimeouts(serial') = 0
          /\ hp'.count_ = hp.count_ + 1
          /\ IF hp.count_ + 1 >= hp.target_
             THEN ~hp'.busy_ /\ CountMsgs(serial', "text", "target_reached") = 1
             ELSE hp'.busy_

C3_UnitBeforeTimeout == [][C3_UnitStep]_vars

\* a late unit has just ended a counter job as TargetReached
C3_Witness ==
    /\ op.call = "CC_update" /\ op.hit /\ op.late
    /\ cc.m_bTargetReached /\ CountMsgs(serial, "event", "target_reached") = 1

\* C4: a start with an amount <= 0 changes nothing of the job (count, target,
\* flags, time of the last unit, actuator), whatever state it is called in.
C4_StartStep ==
    /\ (op'.call = "CC_handleSerial" /\ op'.cmd = "dispense" /\ op'.n <= 0)
       => cc' = cc /\ relays' = relays
    /\ (op'.call = "HP_start" /\ op'.n <= 0)
       => hp' = hp /\ op'.cmd = "false"

C4_InvalidStartNoOp == [][C4_StartStep]_vars

\* a dispense of an amount <= 0 has been handled on a running counter job
C4_Witness ==
    /\ op.call = "CC_handleSerial" /\ op.cmd = "dispense" /\ op.n <= 0
    /\ op.flag /\ cc.m_bDispensing /\ cc.m_nCurrentCount > 0

\* C5: a dispense command with a value <= 0 (either form, coin counter or
\* paper dispenser) and a setStepperSteps command with a value <= 0 are
\* answered with ack{ok:false} or an error, never with an ack ok:true.  Both
\* handlers acknowledge with ok:true whatever the value is, so this fails.
C5_InvalidValueRejected ==
    (/\ op.call \in {"CC_handleSerial", "PD_handleSerial"}
     /\ op.cmd \in {"dispense", "setStepperSteps"}
     /\ op.n <= 0)
    => /\ \E i \in 1 .. Len(serial) :
            \/ serial[i].type = "error"
            \/ serial[i].type = "ack" /\ serial[i].ok = "false"
       /\ \A i \in 1 .. Len(serial) :
            ~(serial[i].type = "ack" /\ serial[i].ok = "true")

\* C6: a start on a coin counter whose job is Running is a no-op: count,
\* target and the time of the last unit stay.  CoinCounter::dispense does not
\* look at m_bDispensing, so this fails.
C6_StartStep ==
    (op'.call = "CC_handleSerial" /\ op'.cmd = "dispense" /\ cc.m_bDispensing)
    => /\ cc'.m_nCurrentCount = cc.m_nCurrentCount
       /\ cc'.m_nTargetCount = cc.m_nTargetCount
       /\ cc'.m_ulLastCoinTime = cc.m_ulLastCoinTime

C6_StartWhileRunningNoOp == [][C6_StartStep]_vars

\* C7: HopperPayout::start(n) on a busy hopper returns false and leaves
\* target, count, time of the last coin, pulse/cool phase and the pin as they
\* are; it returns true only when n > 0 and a job has been started.
C7_StartStep ==
    op'.call = "HP_start"
    => /\ hp.busy_ => (op'.cmd = "false" /\ hp' = hp)
       /\ op'.cmd = "true"
          => /\ op'.n > 0 /\ ~hp.busy_
             /\ hp'.busy_ /\ hp'.target_ = op'.n /\ hp'.count_ = 0 /\ hp'.pin

C7_StartWhenBusy == [][C7_StartStep]_vars

\* start(n), n > 0, has just been refused on a busy hopper that has counted
C7_Witness ==
    /\ op.call = "HP_start" /\ op.flag /\ op.cmd = "false" /\ op.n > 0
    /\ hp.busy_ /\ hp.count_ > 0

\* C8: once a job is TargetReached or TimedOut, its flags (Running,
\* TargetReached, TimedOut) stay under every later tick and unit detection.
\* A coin edge clears m_bTimedOut, so this fails.
C8_TickStep ==
    (op'.call \in {"CC_update", "Advance"} /\ (cc.m_bTargetReached \/ cc.m_bTimedOut))
    => /\ cc'.m_bDispensing = cc.m_bDispensing
       /\ cc'.m_bTargetReached = cc.m_bTargetReached
       /\ cc'.m_bTimedOut = cc.m_bTimedOut

C8_TerminalStates == [][C8_TickStep]_vars

\* C9: after stop() on a running job (counter or hopper Running, paper feed
\* Homing or Feeding) the job writes no target_reached and no
\* dispense_complete event.  The paper feed ramps down and completes after a
\* stop, so this fails.
C9_StopNeverCompletes == job.stopped => job.completes = 0

FeedOrder == <<"HOMING", "DISPENSING", "RAMPING_DOWN", "COMPLETE", "IDLE">>

\* C10: a paper job dispense(n), n > 0, whose every limit switch sample was
\* asserted and that was not stopped goes through HOMING, DISPENSING,
\* RAMPING_DOWN, COMPLETE, IDLE in this order; m_nCurrentPaper grows by one
\* per feed, never exceeds m_nTotalPapers, and exactly n sheets are fed
\* before the ramp down.
C10_FeedSequence ==
    (job.clean /\ job.path # <<>>)
    => /\ Len(job.path) <= Len(FeedOrder)
       /\ job.path = SubSeq(FeedOrder, 1, Len(job.path))
       /\ pd.m_eState = job.path[Len(job.path)]
       /\ job.n > 0
       /\ pd.m_nCurrentPaper <= pd.m_nTotalPapers
       /\ CASE pd.m_eState = "HOMING" ->
                    job.feeds = 0 /\ pd.m_nCurrentPaper = 0 /\ pd.m_nTotalPapers = job.n
            [] pd.m_eState = "DISPENSING" ->
                    job.feeds = pd.m_nCurrentPaper /\ pd.m_nTotalPapers = job.n
            [] pd.m_eState \in {"RAMPING_DOWN", "COMPLETE"} ->
                    /\ job.feeds = job.n /\ pd.m_nCurrentPaper = job.n
                    /\ pd.m_nTotalPapers = job.n
            [] OTHER -> job.feeds = job.n /\ pd.m_nCurrentPaper = 0

\* a job of the largest amount has gone through every state and is back in IDLE
C10_Witness ==
    /\ job.clean /\ job.path = FeedOrder
    /\ job.n = MaxAmount /\ job.feeds = MaxAmount /\ pd.m_eState = "IDLE"

\* C11: a paper job writes dispense_complete exactly when an update pass finds
\* it RAMPING_DOWN with 8000 ms or more passed since the ramp down began, and
\* that pass enters COMPLETE; no other step writes it, so a job writes it at
\* most once; the update pass after COMPLETE clears m_nCurrentPaper,
\* m_nTotalPapers and m_bDispensing, enters IDLE and writes nothing.
C11_Step ==
    /\ (sketch = "paper" /\ CountCompletes(serial') > 0)
       => /\ op'.call = "PD_update" /\ pd.m_eState = "RAMPING_DOWN"
          /\ now - pd.m_ulRampDownStartTime >= 8000
          /\ CountCompletes(serial') = 1
    /\ (op'.call = "PD_update" /\ pd.m_eState = "RAMPING_DOWN")
       => IF now - pd.m_ulRampDownStartTime >= 8000
          THEN /\ pd'.m_eState = "COMPLETE" /\ pd'.motor = "stop"
               /\ CountMsgs(serial', "event", "dispense_complete") = 1
          ELSE pd'.m_eState = "RAMPING_DOWN" /\ CountCompletes(serial') = 0
    /\ (op'.call = "PD_update" /\ pd.m_eState = "COMPLETE")
       => /\ pd'.m_eState = "IDLE" /\ ~pd'.m_bDispensing
          /\ pd'.m_nCurrentPaper = 0 /\ pd'.m_nTotalPapers = 0
          /\ serial' = <<>>
    /\ sketch = "paper" => job'.completes <= 1

C11_CompleteOnce == [][C11_Step]_vars

\* the update pass after COMPLETE has brought a completed job back to IDLE
C11_Witness ==
    /\ op.call = "PD_update" /\ pd.m_eState = "IDLE" /\ serial = <<>>
    /\ job.path = FeedOrder /\ job.completes = 1

\* C12: when the limit switch has not asserted for the bounded wait while the
\* paper feed is HOMING, the feed enters ERROR (and stays there until a
\* reset).  updateStateMachine never assigns ERROR: HOMING waits for ever.
C12_HomingFaultEntersError ==
    (op.call = "PD_update" /\ ~op.flag /\ job.dark >= HomingWaitMs)
    => pd.m_eState = "ERROR"

\* C14 (as stated): a command line written for another instance name B (B in
\* the name key of a structured line, B as the prefix of a legacy line) never
\* changes this instance: count, target, flags, stamps and relay all stay.
C14_OtherNameStep ==
    (op'.call \in {"CC_handleSerial", "PD_handleSerial"}
     /\ op'.to \notin {"", IF sketch = "counter" THEN "Counter" ELSE "PaperDispenser1"})
    => cc' = cc /\ relays' = relays /\ pd' = pd
C14_DistinctNameStep ==
    (/\ op'.call \in {"CC_handleSerial", "PD_handleSerial"}
     /\ op'.to \notin {"", IF sketch = "counter" THEN "Counter" ELSE "PaperDispenser1"}
     /\ (op'.form = "legacy" /\ sketch = "counter") => op'.to \notin {"counter", "COUNTER"})
    => cc' = cc /\ relays' = relays /\ pd' = pd
C16_OneAckPerCommand ==
    (op.call \in {"CC_handleSerial", "PD_handleSerial"} /\ op.cmd \in {"dispense", "stop", "reset"})
    => CountAcks(serial) = 1 /\ CountReports(serial) <= 1

\* C17: a reset command of the coin counter, structured or legacy, writes a
\* status message with count 0 and state idle.  The handler writes the ack
\* only.
C17_ResetWritesStatus ==
    (op.call = "CC_handleSerial" /\ op.cmd = "reset")
    => \E i \in 1 .. Len(serial) :
          /\ serial[i].type = "status" /\ serial[i].status = "idle" /\ serial[i].x = 0

\* C13: with a limit switch that never asserts, every call into the paper
\* dispenser returns: while dispense() of the stepper-motor sketch is
\* running, it can take its next step (it is not blocked for ever), so the
\* polling loop is reached again.  _waitForLimitSwitch() has no bound.
C13_EveryCallReturns ==
    (sketch = "stepper" /\ bp.stuck /\ bp.pc # "loop") => ENABLED BP_step

\* C15: a command line that names a family or an instance the component does
\* not own (a structured line for another target family, a legacy line with
\* another instance's prefix) is silently ignored: no member changes and
\* nothing is written.  The coin slot answers every such line with an
\* unknown_cmd ack.
C15_ForeignStep ==
    (/\ op'.call \in {"CS_handleSerial", "CC_handleSerial", "PD_handleSerial"}
     /\ \/ /\ op'.form = "json"
           /\ op'.family # (CASE op'.call = "CS_handleSerial" -> "CoinSlot"
                              [] op'.call = "CC_handleSerial" -> "CoinCounter"
                              [] OTHER -> "PaperDispenser")
        \/ /\ op'.form = "legacy"
           /\ op'.to \notin {"", "coinslot"}
           /\ (op'.call = "CC_handleSerial") => (op'.to \notin {"counter", "COUNTER"}))
    => serial' = <<>> /\ sl' = sl /\ cc' = cc /\ pd' = pd
C15_ForeignLineIgnored == [][C15_ForeignStep]_vars

\* C18: the update pass that finalizes a burst of n pulses adds to the total
\* the value 1, 5, 10 or 20 for n = 1, 3, 6 or 9 and 0 for every other n; for
\* n in {1, 3, 6, 9} the main sketch writes exactly one coin event carrying
\* that value and the new total, and the coin_slot sketch prints the value
\* (InsertMeter writes nothing itself: its unit is read from total()).
C18_FinalizeStep ==
    (op'.call = "CS_update" /\ op'.flag)
    => LET n == sl.s_ulPulseCount
           v == CASE n = 1 -> 1 [] n = 3 -> 5 [] n = 6 -> 10 [] n = 9 -> 20 [] OTHER -> 0
       IN  /\ op'.n = n
           /\ sl'.s_nTotalValue = sl.s_nTotalValue + v
           /\ (n \in {1, 3, 6, 9} /\ sketch # "meter")
              => /\ Len(serial') = 1
                 /\ serial'[1].type = (IF sketch = "slot" THEN "event" ELSE "line")
                 /\ serial'[1].x = v
                 /\ sketch = "slot" => serial'[1].y = sl.s_nTotalValue + v
C18_ClassifiedByTable == [][C18_FinalizeStep]_vars
C18_Witness ==
    /\ sketch = "slot" /\ op.call = "CS_update" /\ op.flag /\ op.n = 9
    /\ Len(serial) = 1 /\ serial[1].type = "event" /\ serial[1].x = 20
    /\ serial[1].y = 21 /\ sl.s_nTotalValue = 21

\* C19: the update pass that finalizes a burst whose pulse count is not 1, 3,
\* 6 or 9 writes nothing and leaves the total unchanged.  processCoin of the
\* coin_slot sketch prints the value 0.
C19_NoiseStep ==
    (/\ op'.call = "CS_update" /\ op'.flag
     /\ sl.s_ulPulseCount \notin {1, 3, 6, 9})
    => serial' = <<>> /\ sl'.s_nTotalValue = sl.s_nTotalValue
C19_NoiseDiscarded == [][C19_NoiseStep]_vars

\* C20: an edge is counted only when more than 50 ms have passed since the
\* last counted edge, so two edges less than 50 ms apart never both count;
\* an edge that is not counted changes nothing; and the pulses counted since
\* the first pulse of a burst number at most floor(elapsed / 50) + 1.
C20_EdgeStep ==
    /\ (op'.call = "coinPulseISR" /\ op'.hit)
       => /\ now - sl.s_ulLastPulseTime > 50
          /\ sl'.s_ulPulseCount = sl.s_ulPulseCount + 1
          /\ sl'.s_ulLastPulseTime = now
    /\ (op'.call = "coinPulseISR" /\ ~op'.hit)
       => /\ now - sl.s_ulLastPulseTime <= 50
          /\ sl' = sl
    /\ sl'.hits <= (sl'.span \div 50) + 1
C20_Debounce == [][C20_EdgeStep]_vars
C20_Witness ==
    /\ op.call = "coinPulseISR" /\ ~op.hit
    /\ sl.s_ulPulseCount = 2 /\ sl.hits = 2 /\ sl.span = 150
    /\ now - sl.s_ulLastPulseTime = 50

\* C21: under every interleaving of the pulse interrupt with update(), each
\* counted pulse is part of exactly one finalized burst: between two passes
\* of update() the pulses counted since the last finalized burst are all in
\* the pulse count.  A pulse counted between finalizeCoin() and the
\* statement s_ulPulseCount = 0 is erased.
C21_NoPulseLost ==
    (sketch \in SlotSketches /\ sl.pc = "idle") => sl.s_ulPulseCount = sl.hits

\* C22: in the main sketch an attach command attaches the interrupt and
\* reports "attached" exactly when it was detached before, and otherwise
\* changes nothing and reports "already_attached"; a detach command while
\* detached changes nothing and otherwise detaches; and m_bIsAttached
\* (isAttached()) always equals the real attachment of the interrupt.
C22_AttachStep ==
    /\ (sketch = "slot" /\ op'.call = "CS_handleSerial" /\ op'.cmd = "attach")
       => /\ Len(serial') = 1 /\ serial'[1].type = "ack" /\ serial'[1].what = "attach"
          /\ IF ~sl.irq
             THEN /\ sl' = [sl EXCEPT !.irq = TRUE, !.m_bIsAttached = TRUE]
                  /\ serial'[1].status = "attached"
             ELSE /\ sl' = sl
                  /\ serial'[1].status = "already_attached"
    /\ (sketch = "slot" /\ op'.call = "CS_handleSerial" /\ op'.cmd = "detach")
       => IF ~sl.irq THEN sl' = sl
          ELSE sl' = [sl EXCEPT !.irq = FALSE, !.m_bIsAttached = FALSE]
    /\ sketch = "slot" => (sl'.m_bIsAttached = sl'.irq)
C22_AttachDetach == [][C22_AttachStep]_vars
C22_Witness ==
    /\ sketch = "slot" /\ op.call = "CS_handleSerial" /\ op.cmd = "attach"
    /\ op.flag /\ sl.irq /\ sl.m_bIsAttached
    /\ Len(serial) = 1 /\ serial[1].status = "already_attached"

\* C23: after begin() of the main sketch the pulse interrupt is attached, so
\* a falling edge is counted without any attach command having been sent.
\* begin() only sets the pin mode and clears m_bIsAttached.
C23_BeginAttaches ==
    (sketch = "slot" /\ op.call = "init") => (sl.irq /\ ENABLED SlotEdge)

\* C24: a coin counter job becomes TargetReached exactly in the update pass
\* whose coin edge brings the count of a running job up to its target: that
\* pass clears m_bDispensing, switches the relay off and writes exactly one
\* target_reached event; no other pass or command sets the flag or writes
\* the event, a running job's count is below its target, and a job writes
\* the event at most once.
C24_TargetStep ==
    /\ op'.call = "CC_update"
       => IF /\ op'.flag /\ cc.m_bDispensing /\ cc.m_nTargetCount > 0
             /\ cc.m_nCurrentCount + 1 >= cc.m_nTargetCount
          THEN /\ cc'.m_bTargetReached /\ ~cc'.m_bDispensing
               /\ cc'.m_nCurrentCount = cc.m_nTargetCount
               /\ relays'[cc.m_nRelayNumber]
               /\ CountMsgs(serial', "event", "target_reached") = 1
          ELSE /\ cc'.m_bTargetReached = cc.m_bTargetReached
               /\ CountMsgs(serial', "event", "target_reached") = 0
    /\ (sketch = "counter" /\ op'.call # "CC_update")
       => /\ cc.m_bTargetReached \/ ~cc'.m_bTargetReached
          /\ CountMsgs(serial', "event", "target_reached") = 0
    /\ cc'.m_bDispensing => cc'.m_nCurrentCount < cc'.m_nTargetCount
    /\ sketch = "counter" => job'.completes <= 1
C24_TargetReachedOnce == [][C24_TargetStep]_vars
C24_Witness ==
    /\ op.call = "CC_update" /\ op.flag /\ cc.m_bTargetReached /\ ~cc.m_bDispensing
    /\ cc.m_nCurrentCount = 2 /\ cc.m_nTargetCount = 2 /\ relays[1]
    /\ job.n = 2 /\ job.completes = 1
    /\ CountMsgs(serial, "event", "target_reached") = 1

\* C25: a reset, in whatever state it is called, clears the count, the
\* target, the time of the last unit and every state flag: the coin counter
\* and the hopper are idle afterwards (the hopper's actuator off; its stamp 0
\* is read in the frame of the time at which reset() returns).
C25_ResetStep ==
    /\ (op'.call = "CC_handleSerial" /\ op'.cmd = "reset")
       => /\ cc'.m_nCurrentCount = 0 /\ cc'.m_nTargetCount = 0
          /\ cc'.m_ulLastCoinTime = 0
          /\ ~cc'.m_bDispensing /\ ~cc'.m_bTargetReached /\ ~cc'.m_bTimedOut
          /\ ~cc'.m_bNewCoinDetected
    /\ op'.call = "HP_reset"
       => /\ hp'.count_ = 0 /\ hp'.target_ = 0
          /\ ~hp'.busy_ /\ ~hp'.pulsing_ /\ ~hp'.pin
          /\ hp'.lastCoin_ = Rebase(0, now + ButtonClearMs, HOPPER_MAX_GAP_MS)
C25_ResetClears == [][C25_ResetStep]_vars
C25_Witness ==
    /\ op.call = "CC_handleSerial" /\ op.cmd = "reset" /\ op.late
    /\ cc.m_nCurrentCount = 0 /\ cc.m_nTargetCount = 0 /\ ~cc.m_bTimedOut
    /\ ~cc.m_bDispensing

\* C26: the relay of a coin counter is ON (state FALSE) only while its job
\* is running: after target reached, timeout, stop or reset it is OFF.
\* reset() clears m_bDispensing and leaves the relay as it is.
C26_RelayOnlyWhileRunning ==
    (sketch = "counter" /\ ~relays[cc.m_nRelayNumber]) => cc.m_bDispensing

\* C27: a burst is finalized only in a tick where it is active and more
\* than the quiet window has passed since its last counted pulse, and it
\* classifies the pulse count of that tick.
C27_FinalizeStep ==
    (op'.call = "CS_update" /\ op'.flag)
    => /\ IF sketch = "meter" THEN sl.s_ulPulseCount > 0 ELSE sl.s_bCoinActive
       /\ now - sl.s_ulLastPulseTime > 300
       /\ op'.n = sl.s_ulPulseCount

\* C27: when update() has finished a finalization the pulse count is 0 and
\* the burst is inactive.
C27_AfterStep ==
    (sl.pc # "idle" /\ sl'.pc = "idle")
    => (sl'.s_ulPulseCount = 0 /\ ~sl'.s_bCoinActive)

\* C27: a counted pulse that follows the previous counted pulse within the
\* quiet window joins the burst that pulse is in.
C27_ChainStep ==
    (/\ op'.call = "coinPulseISR" /\ op'.hit
     /\ sl.hits > 0
     /\ now - sl.s_ulLastPulseTime <= 300)
    => (sl.s_ulPulseCount >= 1 /\ sl'.s_ulPulseCount = sl.s_ulPulseCount + 1)

C27_FinalizeOnlyWhenQuiet == [][C27_FinalizeStep]_vars

\* C27: a burst is finalized only when active and quiet, pulses within the
\* quiet window of each other are classified together, and after the
\* finalization the pulse count is 0 and the burst inactive.
C27_BurstTogether == [][C27_FinalizeStep /\ C27_AfterStep /\ C27_ChainStep]_vars

\* C28: the hopper counts a sensor edge only if at least 150 ms have passed
\* since the ON pulse began; an edge seen earlier changes neither the count
\* nor the last-coin time.
C28_SettleStep ==
    /\ (op'.call = "HP_loop" /\ hp'.count_ # hp.count_)
       => (op'.flag /\ ~hp.lastButtonState_ /\ now - hp'.pulseStart_ >= 150)
    /\ (/\ op'.call = "HP_loop" /\ op'.flag /\ ~hp.lastButtonState_
        /\ now - hp'.pulseStart_ < 150)
       => (hp'.count_ = hp.count_ /\ hp'.lastCoin_ = hp.lastCoin_)

C28_SettleBeforeCount == [][C28_SettleStep]_vars

C28_Witness ==
    /\ op.call = "HP_loop" /\ op.hit /\ op.flag
    /\ hp.busy_ /\ hp.pulsing_ /\ hp.count_ = 1
    /\ now - hp.pulseStart_ >= 150 /\ hp.lastCoin_ = now

\* C29: while a hopper job runs, loop() switches the actuator OFF in the
\* first pass at which 1000 ms have passed since the pulse began and not
\* before, and switches it ON only when 500 ms have passed since it went
\* OFF and no coin was counted within the last 50 ms.
C29_DutyStep ==
    /\ (op'.call = "HP_loop" /\ hp.busy_ /\ hp.pin /\ now - hp.pulseStart_ >= 1000)
       => ~hp'.pin
    /\ (op'.call = "HP_loop" /\ hp.pin /\ ~hp'.pin /\ hp'.busy_)
       => (now - hp.pulseStart_ >= 1000 /\ hp'.coolStart_ = now)
    /\ (op'.call = "HP_loop" /\ ~hp.pin /\ hp'.pin)
       => (hp.busy_ /\ now - hp.coolStart_ >= 500 /\ now - hp.lastCoin_ >= 50)

C29_DutyCycle == [][C29_DutyStep]_vars

\* the cooling gap is over and the push is deferred: a coin 25 ms ago
C29_Witness ==
    /\ op.call = "HP_loop"
    /\ hp.busy_ /\ ~hp.pin /\ ~hp.pulsing_
    /\ now - hp.coolStart_ >= 500
    /\ now - hp.lastCoin_ < 50 /\ now - hp.lastCoin_ > 0

\* C30: in every state of the paper feed sequencer, whatever the order of
\* dispense, stop, update passes and limit switch changes, the sheets fed
\* do not exceed the sheets asked for.
C30_SheetsWithinTotal ==
    sketch = "paper" => (pd.m_nCurrentPaper >= 0 /\ pd.m_nCurrentPaper <= pd.m_nTotalPapers)

\* the last sheet of a job of MaxAmount has just been fed
C30_Witness ==
    /\ sketch = "paper" /\ op.call = "PD_update"
    /\ pd.m_eState = "DISPENSING"
    /\ pd.m_nTotalPapers = MaxAmount /\ pd.m_nCurrentPaper = pd.m_nTotalPapers

\* C31: a sheet is fed (m_nCurrentPaper grows, by one) only in an update
\* pass in DISPENSING that reads the limit switch pressed; a pass in
\* DISPENSING that reads it released, with sheets left and no stop asked,
\* returns to HOMING with the DC motor forward and the count unchanged.
C31_FeedStep ==
    /\ pd'.m_nCurrentPaper > pd.m_nCurrentPaper
       => /\ op'.call = "PD_update" /\ op'.flag
          /\ pd.m_eState = "DISPENSING"
          /\ pd'.m_nCurrentPaper = pd.m_nCurrentPaper + 1
    /\ (/\ op'.call = "PD_update" /\ ~op'.flag
        /\ pd.m_eState = "DISPENSING"
        /\ pd.m_nCurrentPaper < pd.m_nTotalPapers /\ ~pd.m_bStopped)
       => /\ pd'.m_eState = "HOMING" /\ pd'.motor = "forward"
          /\ pd'.m_nCurrentPaper = pd.m_nCurrentPaper

C31_FeedOnlyAtHome == [][C31_FeedStep]_vars

\* a sheet of two has been fed and the pass that read the switch released
\* has sent the dispenser back to HOMING
C31_Witness ==
    /\ sketch = "paper" /\ op.call = "PD_update" /\ ~op.flag
    /\ pd.m_eState = "HOMING" /\ pd.motor = "forward" /\ pd.m_bDispensing
    /\ pd.m_nCurrentPaper = 1 /\ pd.m_nTotalPapers = 2 /\ job.dark = 0

\* C32: a dispense command that reaches the paper dispenser while it is not
\* IDLE (a job in progress) leaves the sheet count, the total, a pending
\* stop request and the state as they are.
C32_DispenseStep ==
    (op'.call = "PD_handleSerial" /\ op'.cmd = "dispense" /\ pd.m_eState # "IDLE")
    => /\ pd'.m_nCurrentPaper = pd.m_nCurrentPaper
       /\ pd'.m_nTotalPapers = pd.m_nTotalPapers
       /\ pd'.m_bStopped = pd.m_bStopped
       /\ pd'.m_eState = pd.m_eState

C32_DispenseOnlyFromIdle == [][C32_DispenseStep]_vars

\* C33: setRelay() with a relay number outside 1..3 changes nothing, and a
\* number k in 1..3, by either way, sets relay k and only relay k to the
\* state asked for.
C33_SetRelayStep ==
    /\ (op'.call = "RH_setRelay" /\ op'.n \notin 1 .. 3)
       => (relays' = relays /\ rh' = rh)
    /\ (op'.call \in {"RH_setRelay", "RH_handleSerial"} /\ op'.hit /\ op'.n \in 1 .. 3)
       => /\ relays' = [relays EXCEPT ![op'.n] = op'.flag]
          /\ rh' = [rh EXCEPT !.level[op'.n] = op'.flag]

C33_SetRelayChecked == [][C33_SetRelayStep]_vars

\* C33: a relay number outside 1..3 changes no relay state and no relay
\* pin and makes no store outside the state array, by setRelay() and by
\* the structured setRelay command alike; a valid number changes only its
\* own relay.
C33_IndexStep ==
    /\ C33_SetRelayStep
    /\ (op'.call = "RH_handleSerial" /\ op'.hit /\ op'.n \notin 1 .. 3)
       => (relays' = relays /\ rh' = rh /\ ~rh'.stray)

C33_RelayIndexChecked == [][C33_IndexStep]_vars

\* C34: for the coin counter the text form and the structured form of
\* reset, get, stop and dispense n, applied to the same state, give the same
\* members, the same relay states and the same sequence of message types.
C34_CounterFormsAgree ==
    sketch = "counter" =>
        LET Types(out) == [i \in 1 .. Len(out) |-> out[i].type]
            Same(a, b) == a.c = b.c /\ a.r = b.r /\ Types(a.out) = Types(b.out)
        IN  /\ \A w \in {"reset", "get", "stop"} :
                  Same(CC_handleSerial(cc, relays, now, TextLine("counter", w, <<>>)),
                       CC_handleSerial(cc, relays, now,
                                       JsonLine(1, "CoinCounter", w, TRUE, CounterName, FALSE, 0)))
            /\ \A d \in {<<"0">>, <<"1">>, <<"2">>, <<"-", "1">>} :
                  Same(CC_handleSerial(cc, relays, now, TextLine("counter", "dispense", d)),
                       CC_handleSerial(cc, relays, now,
                                       JsonLine(1, "CoinCounter", "dispense", TRUE, CounterName,
                                                TRUE, ToInt(d))))

\* C34: for every command that exists in both forms (coin counter: reset,
\* get, dispense n, stop; coin slot: get, reset, attach, detach, status) the
\* text form and the structured form, applied to the same state, give the
\* same component state and the same sequence of message types.
C34_FormsAgree ==
    /\ C34_CounterFormsAgree
    /\ sketch = "slot" =>
          LET Types(out) == [i \in 1 .. Len(out) |-> out[i].type]
          IN  \A w \in {"get", "reset", "attach", "detach", "status"} :
                  LET a == CS_handleSerial(sl, TextLine("", w, <<>>))
                      b == CS_handleSerial(sl, JsonLine(1, "CoinSlot", w, FALSE, "", FALSE, 0))
                  IN  a.s = b.s /\ Types(a.out) = Types(b.out)

\* C35: a structured command of version 1 for the family of the component
\* that carries no instance name is executed on the one instance there is:
\* the nameless reset resets the coin counter and is acknowledged, the
\* nameless stop stops the paper dispenser and is acknowledged.
C35_NamelessStep ==
    /\ (/\ op'.call = "CC_handleSerial" /\ op'.form = "json"
        /\ op'.family = "CoinCounter" /\ op'.to = "")
       => /\ CountMsgs(serial', "ack", "reset") = 1
          /\ cc'.m_nCurrentCount = 0 /\ ~cc'.m_bDispensing
    /\ (/\ op'.call = "PD_handleSerial" /\ op'.form = "json"
        /\ op'.family = "PaperDispenser" /\ op'.to = "")
       => /\ CountMsgs(serial', "ack", "stop") = 1
          /\ pd.m_bDispensing => pd'.m_bStopped

C35_NamelessDispatched == [][C35_NamelessStep]_vars

\* C36: the paper dispenser and the relay bank answer a structured command
\* with an unknown command name, and the paper dispenser a dispense
\* without value, with an error and change no member.
C36_OthersReport ==
    LET Fails(out) ==
            \E i \in 1 .. Len(out) :
                out[i].type = "error" \/ (out[i].type = "ack" /\ out[i].ok = "false")
    IN  /\ sketch = "paper" =>
              \A line \in {JsonLine(1, "PaperDispenser", "bogus", TRUE, PaperName, FALSE, 0),
                            JsonLine(1, "PaperDispenser", "dispense", TRUE, PaperName, FALSE, 0)} :
                  LET r == PD_handleSerial(pd, now, line)
                  IN  Fails(r.out) /\ r.p = pd
        /\ sketch = "relay" =>
              LET r == RH_handleSerial(relays, rh,
                                       RelayLine(TRUE, "bogus", FALSE, 0, FALSE, "", "", ""), 0)
              IN  Fails(r.out) /\ r.states = relays /\ r.h = rh

\* C36: a structured command addressed to the instance by family, version
\* and name, with an unknown command name or a dispense without value,
\* writes a failure (an ack with ok false, or an error) and changes no
\* member of the component.
C36_FailureReported ==
    LET Fails(out) ==
            \E i \in 1 .. Len(out) :
                out[i].type = "error" \/ (out[i].type = "ack" /\ out[i].ok = "false")
    IN  /\ C36_OthersReport
        /\ sketch = "counter" =>
              \A line \in {JsonLine(1, "CoinCounter", "bogus", TRUE, CounterName, FALSE, 0),
                            JsonLine(1, "CoinCounter", "dispense", TRUE, CounterName, FALSE, 0)} :
                  LET r == CC_handleSerial(cc, relays, now, line)
                  IN  Fails(r.out) /\ r.c = cc /\ r.r = relays

\* C37: in every state of a coin counter at most one of m_bDispensing,
\* m_bTargetReached and m_bTimedOut is true.
C37_OneFlag ==
    sketch = "counter" =>
        /\ ~(cc.m_bDispensing /\ cc.m_bTargetReached)
        /\ ~(cc.m_bDispensing /\ cc.m_bTimedOut)
        /\ ~(cc.m_bTargetReached /\ cc.m_bTimedOut)

\* a job has timed out: m_bTimedOut alone is true
C37_Witness ==
    /\ sketch = "counter" /\ op.call = "CC_update" /\ op.late
    /\ cc.m_bTimedOut /\ ~cc.m_bDispensing /\ ~cc.m_bTargetReached

\* C38: in every state of the hopper payout the actuator pin is ON exactly
\* when busy_ and pulsing_ are both true; whenever busy_ is false it is OFF.
C38_PinFollowsPulse ==
    sketch = "hopper" =>
        /\ hp.pin = (hp.busy_ /\ hp.pulsing_)
        /\ ~hp.busy_ => ~hp.pin

\* a running job in its cooling gap: busy, not pulsing, the pin OFF
C38_Witness ==
    /\ sketch = "hopper" /\ op.call = "HP_loop"
    /\ hp.busy_ /\ ~hp.pulsing_ /\ ~hp.pin

\* C39: with update() / loop() called for ever and time advancing, every
\* job of the coin counter and of the hopper that is running eventually is
\* not running any more, whatever units are detected.
C39_JobsEnd ==
    /\ (sketch = "counter" /\ cc.m_bDispensing) ~> ~cc.m_bDispensing
    /\ (sketch = "hopper" /\ hp.busy_) ~> ~hp.busy_

\* a job of two has ended by timeout after one unit was detected
C39_Witness ==
    /\ sketch = "counter" /\ op.call = "CC_update"
    /\ cc.m_bTimedOut /\ ~cc.m_bDispensing
    /\ cc.m_nTargetCount = 2 /\ cc.m_nCurrentCount = 1

\* C40: in every state of the coin slot (main sketch, coin_slot sketch,
\* InsertMeter) the running total equals the sum of the table values of the
\* bursts finalized since the last reset command; it is 0 right after a
\* reset command; and the coin event written by the pass that finalizes a
\* burst carries that sum, the coin just classified included.
C40_TotalIsSum ==
    sketch \in SlotSketches =>
        /\ sl.s_nTotalValue = sl.sum
        /\ (/\ op.call \in {"CS_handleSerial", "OS_processCommand", "IM_reset"}
            /\ op.cmd = "reset")
           => sl.s_nTotalValue = 0
        /\ (/\ sketch = "slot" /\ op.call = "CS_update" /\ op.flag
            /\ op.n \in {1, 3, 6, 9})
           => /\ Len(serial) = 1
              /\ serial[1].type = "event"
              /\ serial[1].y = sl.sum

\* the second burst since the reset: a 5 after a 1, the event carries 6
C40_Witness ==
    /\ sketch = "slot" /\ op.call = "CS_update" /\ op.flag /\ op.n = 3
    /\ Len(serial) = 1 /\ serial[1].type = "event"
    /\ serial[1].x = 5 /\ serial[1].y = 6
    /\ sl.sum = 6 /\ sl.s_nTotalValue = 6

====
